---- MODULE Spec2Model ----
(***************************************************************************)
(* Transaction execution and event-decoding pipeline of standardweb3:      *)
(* ContractFunctions (src/src/standardweb3/contract/__init__.py).          *)
(*                                                                         *)
(* Python values are modelled structurally: a str is a sequence of         *)
(* one-character strings, a dict is a function whose DOMAIN is its key     *)
(* set, a list is a sequence.  Where the code lets one name hold either a  *)
(* dict or a list the value is tagged ([t |-> "dict"|"list"|"none", v]).   *)
(***************************************************************************)
EXTENDS Integers, Sequences, FiniteSets, TLC

(***************************************************************************)
(* Bounds of the model.                                                    *)
(***************************************************************************)
\* logs in one receipt
MaxLogs == 3
\* items in one batch
MaxBatch == 2

(***************************************************************************)
(* Strings.                                                                *)
(***************************************************************************)
LowerLetters == {"a", "b"}
UpperLetters == {"A", "B"}
Digits == {"0", "1", "2", "3", "4", "5", "6", "7", "8", "9"}

\* str.lower() on one character
LowerChar(c) ==
  CASE c = "A" -> "a"
    [] c = "B" -> "b"
    [] OTHER -> c

UpperChar(c) ==
  CASE c = "a" -> "A"
    [] c = "b" -> "B"
    [] OTHER -> c

\* str.lower()
Lower(s) == [i \in DOMAIN s |-> LowerChar(s[i])]

\* The length of an address in characters (40 hex digits in the program; the
\* model's addresses are as long as the configured engine address).
AddrLen == Len(<<"a", "b">>)

IsHexChar(c) == c \in LowerLetters \cup UpperLetters \cup Digits

\* Web3.to_checksum_address accepts a hex string of the right length in any
\* letter case and raises ValueError for anything else.
IsAddress(s) == Len(s) = AddrLen /\ \A i \in DOMAIN s : IsHexChar(s[i])

\* Web3.to_checksum_address: the mixed-case form is a function of the
\* lower-cased digits alone (EIP-55 takes the case of each letter from a hash
\* of the lower-cased address; here the letter's position stands for the hash
\* bit).
ToChecksumAddress(s) ==
  [i \in DOMAIN s |-> IF i % 2 = 0 THEN UpperChar(LowerChar(s[i])) ELSE LowerChar(s[i])]

(***************************************************************************)
(* Fixed addresses of the model's world.                                   *)
(***************************************************************************)
\* self.matching_engine, as the caller configured it
MatchingEngine == <<"a", "b">>
\* a contract that is not the matching engine (a token emitting Transfer)
TokenContract == <<"b", "1">>
\* pair addresses as they appear in event arguments (checksum case)
Pair1 == <<"1", "A">>
Pair2 == <<"1", "B">>
\* token addresses as the metadata maps spell them
BaseTok == <<"b", "a">>
QuoteTok == <<"b", "b">>

(***************************************************************************)
(* Event Decoder: _decode_function_decoded_logs.                           *)
(***************************************************************************)
\* events_to_try, in trial order
EventsToTry ==
  << "OrderPlaced", "OrderMatched", "OrderCanceled", "NewMarketPrice",
     "PairAdded", "ListingCostSet", "PairUpdated" >>

\* A raw log: address, topic (the event shape its topics[0] is the signature
\* of, "Transfer" for a shape the engine ABI does not know, "NoTopics" for an
\* empty topic list) and the event arguments its data encodes.
MkLog(addr, topic, pair, isBid, id) ==
  [address |-> addr, topic |-> topic, pair |-> pair, isBid |-> isBid, id |-> id,
   price |-> 100 + id, placed |-> 1000 * id]

\* event_function().process_log(log) succeeds exactly when the log's first
\* topic is the event's signature.
ProcessLogOk(event_name, log) == log.topic = event_name

\* log.address.lower() != matching_engine_address.lower()  (negated)
FromEngineExact(log) == log.address = ToChecksumAddress(MatchingEngine)
FromEngine(log) == Lower(log.address) = Lower(ToChecksumAddress(MatchingEngine))

RECURSIVE TryEvents(_, _)
\* the loop without its break: every shape is tried, the last that decodes wins
TryEventsNoBreak(log, k) ==
  LET hits == {j \in k..Len(EventsToTry) : ProcessLogOk(EventsToTry[j], log)}
  IN [hit |-> IF hits = {} THEN 0 ELSE CHOOSE j \in hits : \A j2 \in hits : j2 <= j,
      tried |-> Len(EventsToTry)]
\* The inner for/else over events_to_try for one log: the index of the first
\* shape that decodes it, 0 when none does (the else branch), together with
\* the shapes that were tried.
TryEvents(log, k) ==
  IF k > Len(EventsToTry) THEN [hit |-> 0, tried |-> k - 1]
  ELSE IF ProcessLogOk(EventsToTry[k], log) THEN [hit |-> k, tried |-> k]
  ELSE TryEvents(log, k + 1)

MkDecoded(event_name, log, i) ==
  [event |-> event_name,
   args |-> [pair |-> log.pair, isBid |-> log.isBid, id |-> log.id,
             price |-> log.price, placed |-> log.placed],
   log_index |-> i]

\* What the loop does with a log that no shape decodes: print the topic, go on.
OnUndecodedEmit(st, log, i) ==
  [st EXCEPT !.diagnostics = Append(@, i),
             !.decoded_logs = Append(@, MkDecoded("Unknown", log, i))]
OnUndecoded(st, log, i) == [st EXCEPT !.diagnostics = Append(@, i)]

\* One iteration of `for log in tx_receipt.logs`.  st.attempted records the
\* indices of the logs handed to process_log, st.diagnostics those printed as
\* undecodable; both are observations of the run, not program state.
DecodeStep(st, logs, i) ==
  IF ~FromEngine(logs[i]) THEN st
  ELSE LET r == TryEvents(logs[i], 1)
           st1 == [st EXCEPT !.attempted = Append(@, i),
                             !.trials = Append(@, r.tried)]
       IN IF r.hit = 0 THEN OnUndecoded(st1, logs[i], i)
          ELSE [st1 EXCEPT !.decoded_logs =
                   Append(@, MkDecoded(EventsToTry[r.hit], logs[i], i))]

RECURSIVE DecodeLoop(_, _, _)
DecodeLoop(st, logs, i) ==
  IF i > Len(logs) THEN st
  ELSE DecodeLoop(DecodeStep(st, logs, i), logs, i + 1)

DecodeRun(logs) ==
  DecodeLoop([decoded_logs |-> <<>>, attempted |-> <<>>, trials |-> <<>>,
              diagnostics |-> <<>>], logs, 1)

PyNone == [t |-> "none", v |-> <<>>]
PyList(s) == [t |-> "list", v |-> s]
PyDict(d) == [t |-> "dict", v |-> d]

\* return decoded_logs if decoded_logs else None
DecodeReturn(run) ==
  IF run.decoded_logs # <<>> THEN PyList(run.decoded_logs) ELSE PyNone

(***************************************************************************)
(* Order Result Mapper: _parse_decoded_logs.                               *)
(***************************************************************************)
RECURSIVE DigitsOf(_)
DigitsOf(n) ==
  LET d == <<"0", "1", "2", "3", "4", "5", "6", "7", "8", "9">>[(n % 10) + 1]
  IN IF n < 10 THEN <<d>> ELSE Append(DigitsOf(n \div 10), d)

\* str(int) for a non-negative int, as an f-string formats it
PyStrInt(n) == DigitsOf(n)

\* str(bool), as an f-string formats it
PyStrBool(b) == IF b THEN <<"T", "r", "u", "e">> ELSE <<"F", "a", "l", "s", "e">>

\* f"{base}_{quote}_{is_bid}_{order_id}"
FormatOrderId(base, quote, is_bid, order_id) ==
  base \o <<"_">> \o quote \o <<"_">> \o PyStrBool(is_bid) \o <<"_">> \o PyStrInt(order_id)

EmptyDict == [k \in {} |-> 0]

\* d[key] = value for every key of rec, on the dict d
SetKeys(d, rec) ==
  [k \in DOMAIN d \cup DOMAIN rec |-> IF k \in DOMAIN rec THEN rec[k] ELSE d[k]]

\* d[key][f] is readable for every f of fields (no KeyError)
HasEntry(d, key, fields) == key \in DOMAIN d /\ fields \subseteq DOMAIN d[key]

\* The mapper's locals: order_info names a dict object, order_infos is a list
\* of references to dict objects, heap holds the objects.
MapperStart ==
  [heap |-> <<EmptyDict>>, order_info |-> 1, order_infos |-> <<>>, raised |-> FALSE]

\* order_info = {}  (line 224): a fresh dict object
ResetOrderInfoAlias(st) == st
ResetOrderInfo(st) ==
  [st EXCEPT !.heap = Append(@, EmptyDict), !.order_info = Len(st.heap) + 1]

IsOrderPlacedOrMatched(log) == log.event \in {"OrderPlaced", "OrderMatched"}
IsOrderPlaced(log) == log.event = "OrderPlaced"

\* The OrderPlaced branch (lines 207-237).
ParsePlaced(st, log, bq, ti) ==
  LET pair_lowercase == Lower(log.args.pair)
  IN IF ~HasEntry(bq, pair_lowercase, {"base", "quote"})
     THEN [st EXCEPT !.raised = TRUE]
     ELSE
       LET base == bq[pair_lowercase].base
           quote == bq[pair_lowercase].quote
           is_bid == log.args.isBid
           order_id == log.args.id
           rec == [id |-> FormatOrderId(base, quote, is_bid, order_id),
                   pair |-> pair_lowercase, base |-> base, quote |-> quote,
                   isBid |-> is_bid, orderId |-> order_id,
                   price |-> log.args.price, amount |-> log.args.placed]
           st1 == [st EXCEPT !.heap[st.order_info] = SetKeys(@, rec),
                             !.order_infos = Append(@, st.order_info)]
           st2 == ResetOrderInfo(st1)
           placed_lowercase == IF is_bid THEN quote ELSE base
       IN IF /\ HasEntry(ti, placed_lowercase, {"decimals", "symbol"})
             /\ HasEntry(bq, pair_lowercase, {"symbol"})
          THEN st2
          ELSE [st2 EXCEPT !.raised = TRUE]

\* The OrderMatched branch (lines 239-265): prints only.
ParseMatched(st, log, bq, ti) ==
  LET pair_lowercase == Lower(log.args.pair)
  IN IF /\ HasEntry(bq, pair_lowercase, {"base", "quote"})
        /\ HasEntry(ti, bq[pair_lowercase].base, {"decimals", "symbol"})
        /\ HasEntry(ti, bq[pair_lowercase].quote, {"decimals", "symbol"})
     THEN st
     ELSE [st EXCEPT !.raised = TRUE]

\* The NewMarketPrice and PairAdded branches (lines 270-292): print only.
ParsePairEvent(st, log, bq, ti) ==
  LET pair_lowercase == Lower(log.args.pair)
  IN IF /\ HasEntry(bq, pair_lowercase, {"symbol", "base", "quote"})
        /\ HasEntry(ti, bq[pair_lowercase].base, {"symbol"})
        /\ HasEntry(ti, bq[pair_lowercase].quote, {"symbol"})
     THEN st
     ELSE [st EXCEPT !.raised = TRUE]

\* One iteration of `for i, log in enumerate(decoded_logs)`.
ParseStep(st, log, bq, ti) ==
  IF IsOrderPlaced(log) THEN ParsePlaced(st, log, bq, ti)
  ELSE IF log.event = "OrderMatched" THEN ParseMatched(st, log, bq, ti)
  ELSE IF log.event \in {"NewMarketPrice", "PairAdded"} THEN ParsePairEvent(st, log, bq, ti)
  ELSE st

\* The loop inside the try: an exception leaves it at once.
RECURSIVE ParseLoop(_, _, _, _, _)
ParseLoop(st, logs, i, bq, ti) ==
  IF i > Len(logs) \/ st.raised THEN st
  ELSE ParseLoop(ParseStep(st, logs[i], bq, ti), logs, i + 1, bq, ti)

\* _parse_decoded_logs(decoded_logs): None gives [], an exception anywhere in
\* the loop gives [], otherwise the lone record, [] or the list.
ParseDecodedLogs(decoded_logs, bq, ti) ==
  IF decoded_logs.t = "none" THEN PyList(<<>>)
  ELSE
    LET st == ParseLoop(MapperStart, decoded_logs.v, 1, bq, ti)
        order_infos == [k \in DOMAIN st.order_infos |-> st.heap[st.order_infos[k]]]
    IN IF st.raised THEN PyList(<<>>)
       ELSE IF Len(order_infos) = 1 THEN PyDict(order_infos[1])
       ELSE IF Len(order_infos) = 0 THEN PyList(<<>>)
       ELSE PyList(order_infos)

\* len(x) on a dict or a list
PyLen(x) == IF x.t = "dict" THEN Cardinality(DOMAIN x.v) ELSE Len(x.v)

(***************************************************************************)
(* Python values of caller inputs, and the conversions the encoders apply. *)
(***************************************************************************)
PyInt(n) == [t |-> "int", v |-> n]
PyStr(s) == [t |-> "str", v |-> s]
PyBool(b) == [t |-> "bool", v |-> b]

Ok(v) == [ok |-> TRUE, v |-> v]
\* an exception of class exc; index is the batch index the message names
\* (-1 when it names none)
Err(exc, index) == [ok |-> FALSE, v |-> [exc |-> exc, index |-> index]]

DigitValue(c) ==
  CASE c = "0" -> 0 [] c = "1" -> 1 [] c = "2" -> 2 [] c = "3" -> 3 [] c = "4" -> 4
    [] c = "5" -> 5 [] c = "6" -> 6 [] c = "7" -> 7 [] c = "8" -> 8 [] c = "9" -> 9

RECURSIVE ParseDigits(_)
ParseDigits(s) ==
  IF Len(s) = 0 THEN 0
  ELSE 10 * ParseDigits(SubSeq(s, 1, Len(s) - 1)) + DigitValue(s[Len(s)])

\* int(x): an int is itself, a bool is 0 or 1, a str must be decimal digits
\* (ValueError otherwise), None is a TypeError.
IntOf(x) ==
  CASE x.t = "int" -> Ok(x.v)
    [] x.t = "bool" -> Ok(IF x.v THEN 1 ELSE 0)
    [] x.t = "str" ->
         IF Len(x.v) > 0 /\ \A i \in DOMAIN x.v : x.v[i] \in Digits
         THEN Ok(ParseDigits(x.v)) ELSE Err("ValueError", -1)
    [] OTHER -> Err("TypeError", -1)

\* bool(x): truthiness
BoolOf(x) ==
  CASE x.t = "bool" -> x.v
    [] x.t = "int" -> x.v # 0
    [] x.t = "str" -> Len(x.v) > 0
    [] x.t = "list" -> Len(x.v) > 0
    [] x.t = "dict" -> DOMAIN x.v # {}
    [] OTHER -> FALSE

\* Web3.to_checksum_address(x)
ChecksumOfLenient(x) == Ok(x.v)
ChecksumOf(x) ==
  IF x.t = "str" /\ IsAddress(x.v) THEN Ok(ToChecksumAddress(x.v))
  ELSE Err("ValueError", -1)

\* str.split("_")
RECURSIVE SplitUnderscore(_)
SplitUnderscore(s) ==
  IF \A i \in DOMAIN s : s[i] # "_" THEN <<s>>
  ELSE LET k == CHOOSE i \in DOMAIN s : s[i] = "_" /\ \A j \in 1..(i - 1) : s[j] # "_"
       IN <<SubSeq(s, 1, k - 1)>> \o SplitUnderscore(SubSeq(s, k + 1, Len(s)))

\* The first failed conversion of a sequence of conversion results, in the
\* order the tuple expression evaluates them; Ok when none failed.
FirstFailure(rs) ==
  IF \A i \in DOMAIN rs : rs[i].ok THEN Ok(<<>>)
  ELSE rs[CHOOSE i \in DOMAIN rs : ~rs[i].ok /\ \A j \in 1..(i - 1) : rs[j].ok]

(***************************************************************************)
(* Intent Encoder: the batch operations.                                   *)
(***************************************************************************)
GasFloor == 3000000

\* if gas < 3000000 * len(processed_data): gas = 3000000 * len(processed_data)
\* the caller's gas is kept whatever the batch size
GasForKeep(gas, n) == gas
GasFor(gas, n) == IF gas < GasFloor * n THEN GasFloor * n ELSE gas

CreateRequired ==
  <<"base", "quote", "isBid", "isLimit", "price", "amount", "n", "recipient">>
UpdateRequired ==
  <<"base", "quote", "isBid", "isLimit", "orderId", "price", "amount", "n",
    "recipient", "isETH">>

\* the first required field the dict lacks, "" when it has them all
FirstMissing(required, d) ==
  IF \A k \in DOMAIN required : required[k] \in DOMAIN d THEN ""
  ELSE required[CHOOSE k \in DOMAIN required :
                  required[k] \notin DOMAIN d /\ \A j \in 1..(k - 1) : required[j] \in DOMAIN d]

\* d[key] inside the tuple expression: KeyError when the key is absent
Field(d, key) == IF key \in DOMAIN d THEN Ok(d[key]) ELSE Err("KeyError", -1)
ChecksumConv(r) == IF r.ok THEN ChecksumOf(r.v) ELSE r
IntConv(r) == IF r.ok THEN IntOf(r.v) ELSE r
BoolConv(r) == IF r.ok THEN Ok(BoolOf(r.v)) ELSE r

\* One iteration of the create_orders loop (lines 616-659) on item i
\* (0-based): the positional tuple and the native amount it adds.
CreateItem(item, i) ==
  IF item.t # "dict" THEN Err("ValueError", i)
  ELSE
    LET order_data == IF "orderId" \notin DOMAIN item.v
                      THEN SetKeys(item.v, [orderId |-> PyInt(0)]) ELSE item.v
    IN IF FirstMissing(CreateRequired, order_data) # "" THEN Err("ValueError", i)
       ELSE
         LET rs == << ChecksumConv(Field(order_data, "base")),
                      ChecksumConv(Field(order_data, "quote")),
                      BoolConv(Field(order_data, "isBid")),
                      BoolConv(Field(order_data, "isLimit")),
                      Ok(1),
                      IntConv(Field(order_data, "price")),
                      IntConv(Field(order_data, "amount")),
                      IntConv(Field(order_data, "n")),
                      ChecksumConv(Field(order_data, "recipient")),
                      BoolConv(Field(order_data, "isETH")) >>
         IN IF ~FirstFailure(rs).ok THEN FirstFailure(rs)
            ELSE Ok([tuple |-> [k \in DOMAIN rs |-> rs[k].v],
                     eth |-> IF BoolOf(order_data["isETH"]) THEN rs[7].v ELSE 0])

\* One iteration of the update_orders loop (lines 725-765).
UpdateItem(item, i) ==
  IF item.t # "dict" THEN Err("ValueError", i)
  ELSE
    LET order_data == item.v
    IN IF FirstMissing(UpdateRequired, order_data) # "" THEN Err("ValueError", i)
       ELSE
         LET rs == << ChecksumConv(Field(order_data, "base")),
                      ChecksumConv(Field(order_data, "quote")),
                      BoolConv(Field(order_data, "isBid")),
                      BoolConv(Field(order_data, "isLimit")),
                      IntConv(Field(order_data, "orderId")),
                      IntConv(Field(order_data, "price")),
                      IntConv(Field(order_data, "amount")),
                      IntConv(Field(order_data, "n")),
                      ChecksumConv(Field(order_data, "recipient")),
                      BoolConv(Field(order_data, "isETH")) >>
         IN IF ~FirstFailure(rs).ok THEN FirstFailure(rs)
            ELSE Ok([tuple |-> [k \in DOMAIN rs |-> rs[k].v],
                     eth |-> IF BoolOf(order_data["isETH"]) THEN rs[7].v ELSE 0])

\* One iteration of the cancel_orders loop (lines 809-837).
CancelItem(item, i) ==
  IF item.t # "str" THEN Err("ValueError", i)
  ELSE
    LET order_id == SplitUnderscore(item.v)
    IN IF Len(order_id) < 4 THEN Err("IndexError", -1)
       ELSE
         LET rs == << ChecksumOf(PyStr(order_id[1])),
                      ChecksumOf(PyStr(order_id[2])),
                      Ok(BoolOf(PyStr(order_id[3]))),
                      IntOf(PyStr(order_id[4])) >>
         IN IF ~FirstFailure(rs).ok THEN FirstFailure(rs)
            ELSE Ok([tuple |-> [k \in DOMAIN rs |-> rs[k].v], eth |-> 0])

\* The loop over the batch: the first item that raises ends the call.
ItemOf(function_name, item, i) ==
  CASE function_name = "createOrders" -> CreateItem(item, i)
    [] function_name = "updateOrders" -> UpdateItem(item, i)
    [] function_name = "cancelOrders" -> CancelItem(item, i)

RECURSIVE BatchLoop(_, _, _, _)
\* eth_amount = int(order_data["amount"]) in place of +=
BatchStepOverwrite(function_name, items, k, acc, r) ==
  IF ~r.ok THEN r
  ELSE BatchLoop(function_name, items, k + 1,
                 [processed_data |-> Append(acc.processed_data, r.v.tuple),
                  eth_amount |-> r.v.eth])

BatchStep(function_name, items, k, acc, r) ==
  IF ~r.ok THEN r
  ELSE BatchLoop(function_name, items, k + 1,
                 [processed_data |-> Append(acc.processed_data, r.v.tuple),
                  eth_amount |-> acc.eth_amount + r.v.eth])

BatchLoop(function_name, items, k, acc) ==
  IF k > Len(items) THEN Ok(acc)
  ELSE BatchStep(function_name, items, k, acc, ItemOf(function_name, items[k], k - 1))

\* create_orders / update_orders / cancel_orders up to the call of
\* _execute_transaction: the exception raised to the caller, or the call.
BatchCall(function_name, gas, r) ==
  IF ~r.ok THEN r
  ELSE Ok([function_name |-> function_name,
           args |-> <<r.v.processed_data>>,
           eth_amount |-> r.v.eth_amount,
           gas |-> GasFor(gas, Len(r.v.processed_data))])

EncodeBatch(function_name, data, gas) ==
  IF data.t # "list" THEN Err("ValueError", -1)
  ELSE IF Len(data.v) = 0 THEN Err("ValueError", -1)
  ELSE BatchCall(function_name, gas,
                 BatchLoop(function_name, data.v, 1, [processed_data |-> <<>>, eth_amount |-> 0]))

(***************************************************************************)
(* Intent Encoder: the single-order operations (lines 303-561).  a is the  *)
(* dict of the caller's arguments.  Conversions run in the order of the    *)
(* method body; the first that fails raises to the caller.                 *)
(***************************************************************************)
DefaultGas == 3000000

SingleCall(function_name, rs, args, eth_amount, gas) ==
  IF ~FirstFailure(rs).ok THEN FirstFailure(rs)
  ELSE Ok([function_name |-> function_name, args |-> args,
           eth_amount |-> eth_amount, gas |-> gas])

market_buy(a) ==
  LET base == ChecksumOf(a.base)  quote == ChecksumOf(a.quote)
      recipient == ChecksumOf(a.recipient)  quote_amount == IntOf(a.amount)
      n == IntOf(a.n)  slippage_limit == IntOf(a.slippage_limit)
  IN SingleCall("marketBuy", <<base, quote, recipient, quote_amount, n, slippage_limit>>,
                <<base.v, quote.v, quote_amount.v, a.is_maker, n.v, recipient.v,
                  slippage_limit.v>>, 0, a.gas)

market_sell(a) ==
  LET base == ChecksumOf(a.base)  quote == ChecksumOf(a.quote)
      recipient == ChecksumOf(a.recipient)  base_amount == IntOf(a.amount)
      n == IntOf(a.n)  slippage_limit == IntOf(a.slippage_limit)
  IN SingleCall("marketSell", <<base, quote, recipient, base_amount, n, slippage_limit>>,
                <<base.v, quote.v, base_amount.v, a.is_maker, n.v, recipient.v,
                  slippage_limit.v>>, 0, a.gas)

limit_buy(a) ==
  LET base == ChecksumOf(a.base)  quote == ChecksumOf(a.quote)
      recipient == ChecksumOf(a.recipient)  price == IntOf(a.price)
      quote_amount == IntOf(a.amount)  n == IntOf(a.n)
  IN SingleCall("limitBuy", <<base, quote, recipient, price, quote_amount, n>>,
                <<base.v, quote.v, price.v, quote_amount.v, a.is_maker, n.v, recipient.v>>,
                0, a.gas)

limit_sell(a) ==
  LET base == ChecksumOf(a.base)  quote == ChecksumOf(a.quote)
      recipient == ChecksumOf(a.recipient)  price == IntOf(a.price)
      base_amount == IntOf(a.amount)  n == IntOf(a.n)
  IN SingleCall("limitSell", <<base, quote, recipient, price, base_amount, n>>,
                <<base.v, quote.v, price.v, base_amount.v, a.is_maker, n.v, recipient.v>>,
                0, a.gas)

limit_buy_eth(a) ==
  LET base == ChecksumOf(a.base)  recipient == ChecksumOf(a.recipient)
      price == IntOf(a.price)  n == IntOf(a.n)  eth_amount == IntOf(a.eth_amount)
  IN SingleCall("limitBuyETH", <<base, recipient, price, n, eth_amount>>,
                <<base.v, price.v, a.is_maker, n.v, recipient.v>>, eth_amount.v, a.gas)

limit_sell_eth(a) ==
  LET quote == ChecksumOf(a.quote)  recipient == ChecksumOf(a.recipient)
      price == IntOf(a.price)  n == IntOf(a.n)  eth_amount == IntOf(a.eth_amount)
  IN SingleCall("limitSellETH", <<quote, recipient, price, n, eth_amount>>,
                <<quote.v, price.v, a.is_maker, n.v, recipient.v>>, eth_amount.v, a.gas)

market_buy_eth(a) ==
  LET base == ChecksumOf(a.base)  recipient == ChecksumOf(a.recipient)
      n == IntOf(a.n)  slippage_limit == IntOf(a.slippage_limit)
      eth_amount == IntOf(a.eth_amount)
  IN SingleCall("marketBuyETH", <<base, recipient, n, slippage_limit, eth_amount>>,
                <<base.v, a.is_maker, n.v, recipient.v, slippage_limit.v>>,
                eth_amount.v, a.gas)

market_sell_eth(a) ==
  LET quote == ChecksumOf(a.quote)  recipient == ChecksumOf(a.recipient)
      n == IntOf(a.n)  slippage_limit == IntOf(a.slippage_limit)
      eth_amount == IntOf(a.eth_amount)
  IN SingleCall("marketSellETH", <<quote, recipient, n, slippage_limit, eth_amount>>,
                <<quote.v, a.is_maker, n.v, recipient.v, slippage_limit.v>>,
                eth_amount.v, a.gas)

create_orders(a) == EncodeBatch("createOrders", a.data, a.gas)
update_orders(a) == EncodeBatch("updateOrders", a.data, a.gas)
NoValue(r) ==
  IF r.ok THEN Ok([function_name |-> r.v.function_name, args |-> r.v.args,
                   eth_amount |-> 0, gas |-> r.v.gas])
  ELSE r
cancel_orders(a) == NoValue(EncodeBatch("cancelOrders", a.data, a.gas))

SingleOps ==
  {"market_buy", "market_sell", "limit_buy", "limit_sell",
   "limit_buy_eth", "limit_sell_eth", "market_buy_eth", "market_sell_eth"}
BatchOps == {"create_orders", "update_orders", "cancel_orders"}

\* The public operation up to its call of _execute_transaction.
Encode(intent) ==
  CASE intent.op = "market_buy" -> market_buy(intent.a)
    [] intent.op = "market_sell" -> market_sell(intent.a)
    [] intent.op = "limit_buy" -> limit_buy(intent.a)
    [] intent.op = "limit_sell" -> limit_sell(intent.a)
    [] intent.op = "limit_buy_eth" -> limit_buy_eth(intent.a)
    [] intent.op = "limit_sell_eth" -> limit_sell_eth(intent.a)
    [] intent.op = "market_buy_eth" -> market_buy_eth(intent.a)
    [] intent.op = "market_sell_eth" -> market_sell_eth(intent.a)
    [] intent.op = "create_orders" -> create_orders(intent.a)
    [] intent.op = "update_orders" -> update_orders(intent.a)
    [] intent.op = "cancel_orders" -> cancel_orders(intent.a)

(***************************************************************************)
(* StandardClient: the wrapping client's trading methods, up to their call *)
(* of the same-named ContractFunctions method.  a is the dict of the       *)
(* caller's arguments, ti is self.token_info.                              *)
(***************************************************************************)
PriceDecimals == 8
SlippageDecimals == 6
EthDecimals == 18

\* x * 10**d.  The zero case is split off so that the power is only formed
\* where the product fits TLC's 32-bit integers.
Scale(x, d) ==
  CASE x.t = "int" -> Ok(PyInt(IF x.v = 0 THEN 0 ELSE x.v * 10^d))
    [] x.t = "bool" -> Ok(PyInt(IF x.v THEN 10^d ELSE 0))
    [] x.t = "none" -> Err("TypeError", -1)

\* self.token_info[token]["decimals"]
DecimalsOf(ti, token) ==
  IF token.t = "str" /\ HasEntry(ti, token.v, {"decimals"})
  THEN Ok(ti[token.v].decimals) ELSE Err("KeyError", -1)

\* amount * 10 ** self.token_info[token]["decimals"]
ScaleBy(x, decimals) == IF decimals.ok THEN Scale(x, decimals.v) ELSE decimals

\* price = price * 10**8
ParsePriceAsSlippage(price) == Scale(price, SlippageDecimals)
ParsePrice(price) == Scale(price, PriceDecimals)

\* slippageLimit = slippageLimit * 10**6
ParseSlippage(slippage_limit) == Scale(slippage_limit, SlippageDecimals)

\* eth_amount = eth_amount * 10**18
ParseEth(eth_amount) == Scale(eth_amount, EthDecimals)

\* return await self.contract.<op>(...): the arguments named by keys are the
\* re-bound locals rs, the others go through as the caller gave them; the
\* first failed computation raises to the caller instead.
Forward(op, a, keys, rs) ==
  IF ~FirstFailure(rs).ok THEN FirstFailure(rs)
  ELSE Ok([op |-> op,
           a |-> [k \in DOMAIN a |->
                    IF \E i \in DOMAIN keys : keys[i] = k
                    THEN rs[CHOOSE i \in DOMAIN keys : keys[i] = k].v
                    ELSE a[k]]])

StandardClient_market_buy(a, ti) ==
  Forward("market_buy", a, <<"slippage_limit", "amount">>,
          <<ParseSlippage(a.slippage_limit), ScaleBy(a.amount, DecimalsOf(ti, a.quote))>>)

StandardClient_market_sell(a, ti) ==
  Forward("market_sell", a, <<"slippage_limit", "amount">>,
          <<ParseSlippage(a.slippage_limit), ScaleBy(a.amount, DecimalsOf(ti, a.base))>>)

StandardClient_limit_buy(a, ti) ==
  Forward("limit_buy", a, <<"price", "amount">>,
          <<ParsePrice(a.price), ScaleBy(a.amount, DecimalsOf(ti, a.quote))>>)

StandardClient_limit_sell(a, ti) ==
  Forward("limit_sell", a, <<"price", "amount">>,
          <<ParsePrice(a.price), ScaleBy(a.amount, DecimalsOf(ti, a.base))>>)

StandardClient_limit_buy_eth(a, ti) ==
  Forward("limit_buy_eth", a, <<"price", "eth_amount">>,
          <<ParsePrice(a.price), ParseEth(a.eth_amount)>>)

StandardClient_limit_sell_eth(a, ti) ==
  Forward("limit_sell_eth", a, <<"price", "eth_amount">>,
          <<ParsePrice(a.price), ParseEth(a.eth_amount)>>)

StandardClient_market_buy_eth(a, ti) ==
  Forward("market_buy_eth", a, <<"slippage_limit", "eth_amount">>,
          <<ParseSlippage(a.slippage_limit), ParseEth(a.eth_amount)>>)

StandardClient_market_sell_eth(a, ti) ==
  Forward("market_sell_eth", a, <<"slippage_limit", "eth_amount">>,
          <<ParseSlippage(a.slippage_limit), ParseEth(a.eth_amount)>>)

\* The StandardClient method up to its call of the contract layer.
StandardClient(rq, ti) ==
  CASE rq.op = "market_buy" -> StandardClient_market_buy(rq.a, ti)
    [] rq.op = "market_sell" -> StandardClient_market_sell(rq.a, ti)
    [] rq.op = "limit_buy" -> StandardClient_limit_buy(rq.a, ti)
    [] rq.op = "limit_sell" -> StandardClient_limit_sell(rq.a, ti)
    [] rq.op = "limit_buy_eth" -> StandardClient_limit_buy_eth(rq.a, ti)
    [] rq.op = "limit_sell_eth" -> StandardClient_limit_sell_eth(rq.a, ti)
    [] rq.op = "market_buy_eth" -> StandardClient_market_buy_eth(rq.a, ti)
    [] rq.op = "market_sell_eth" -> StandardClient_market_sell_eth(rq.a, ti)

\* order[key] = v: the assignment goes to the dict the caller holds
AssignKey(item, key, v) == PyDict([item.v EXCEPT ![key] = v])

\* order["price"] * 10**8 on one item (lines 255, 283)
OrderPrice(item) ==
  IF item.t # "dict" THEN Err("TypeError", -1)
  ELSE IF "price" \notin DOMAIN item.v THEN Err("KeyError", -1)
  ELSE ParsePrice(item.v.price)

\* order["amount"] * 10 ** self.token_info[order["base"]]["decimals"]
\* (lines 258-260, 286-288)
OrderAmount(item, ti) ==
  IF item.t # "dict" THEN Err("TypeError", -1)
  ELSE IF "amount" \notin DOMAIN item.v \/ "base" \notin DOMAIN item.v THEN Err("KeyError", -1)
  ELSE ScaleBy(item.v.amount, DecimalsOf(ti, item.v.base))

\* `for order in data: order[key] = ...` from item k on: the items as the
\* loop leaves them and the exception that ended it, if any.  An exception
\* at item k leaves the items before k assigned.
RECURSIVE AssignLoop(_, _, _, _)
AssignStep(items, k, key, ti, r) ==
  IF ~r.ok THEN [items |-> items, r |-> r]
  ELSE AssignLoop([items EXCEPT ![k] = AssignKey(@, key, r.v)], k + 1, key, ti)

AssignLoop(items, k, key, ti) ==
  IF k > Len(items) THEN [items |-> items, r |-> Ok(PyNone)]
  ELSE AssignStep(items, k, key, ti,
                  IF key = "price" THEN OrderPrice(items[k]) ELSE OrderAmount(items[k], ti))

\* return await self.contract.<op>(data): the same list object goes on
ForwardOrders(op, a, p) ==
  [data |-> PyList(p.items),
   r |-> IF p.r.ok THEN Ok([op |-> op, a |-> [a EXCEPT !.data = PyList(p.items)]]) ELSE p.r]

\* the second loop runs only when the first ended without exception
ScaleAmounts(op, a, ti, p) ==
  IF ~p.r.ok THEN [data |-> PyList(p.items), r |-> p.r]
  ELSE ForwardOrders(op, a, AssignLoop(p.items, 1, "amount", ti))

\* The body shared by StandardClient.create_orders and update_orders: data
\* is the caller's list after the method, r the call of the contract layer
\* or the exception raised before it.
ScaleOrders(op, a, ti) ==
  IF a.data.t # "list" THEN [data |-> a.data, r |-> Err("TypeError", -1)]
  ELSE ScaleAmounts(op, a, ti, AssignLoop(a.data.v, 1, "price", ti))

StandardClient_create_orders(a, ti) == ScaleOrders("create_orders", a, ti)
StandardClient_update_orders(a, ti) == ScaleOrders("update_orders", a, ti)

(***************************************************************************)
(* State.                                                                  *)
(***************************************************************************)
VARIABLES
  client,       \* the StandardClient object, once its constructor has run
  order_list,   \* the list of order dicts the caller holds and passes to batch calls
  ws,           \* WebsocketFunctions.connect_to_ws: where the loop is, what it saw
  client_token_info,  \* StandardClient._token_info: token id -> token record
  request,      \* per invocation: the StandardClient method called, its arguments
  base_quote,   \* self.base_quote: lower-case pair address -> dict
  token_info,   \* self.token_info: token address -> dict
  chain_count,  \* the network: confirmed transaction count of self.address
  mempool,      \* the network: invocations whose transaction is pending
  pc,           \* per invocation: where the coroutine is
  intent,       \* per invocation: the operation called and its arguments
  call,         \* per invocation: arguments handed to _execute_transaction
  tx,           \* per invocation: the signed transaction
  receipt,      \* per invocation: the receipt of its transaction, once mined
  outcome,      \* per invocation: what the caller got
  obs           \* per invocation: which steps ran (observation only)

vars == <<client, order_list, ws, client_token_info, request, base_quote, token_info, chain_count, mempool, pc, intent, call, tx,
          receipt, outcome, obs>>

\* Two invocations started by the caller on one client without serialization.
Ops == {"op1", "op2"}

Pending == [kind |-> "pending", value |-> PyNone]
Raised(e) == [kind |-> "raised", value |-> e]
Returned(v) == [kind |-> "returned", value |-> v]

NoObs == [nonce_reads |-> 0, signs |-> 0, broadcasts |-> 0, status_checks |-> 0,
          decodes |-> <<>>, maps |-> <<>>]

\* connect_to_ws before start_ws is called
WsIdle == [pc |-> "idle", conns |-> 0, failures |-> 0, hellos |-> 0, others |-> 0, sends |-> 0]

\* the token records of the wrapping StandardClient; empty when the
\* ContractFunctions object is used on its own
TokensOf(m) == IF "tokens" \in DOMAIN m THEN m.tokens ELSE EmptyDict

InitWith(metas) ==
  /\ \E m \in metas : /\ base_quote = m.base_quote
                      /\ token_info = m.token_info
                      /\ client_token_info = TokensOf(m)
  /\ client = <<>>
  /\ order_list = <<>>
  /\ ws = WsIdle
  /\ request = [o \in Ops |-> <<>>]
  /\ chain_count = 0
  /\ mempool = {}
  /\ pc = [o \in Ops |-> "idle"]
  /\ intent = [o \in Ops |-> <<>>]
  /\ call = [o \in Ops |-> <<>>]
  /\ tx = [o \in Ops |-> <<>>]
  /\ receipt = [o \in Ops |-> <<>>]
  /\ outcome = [o \in Ops |-> Pending]
  /\ obs = [o \in Ops |-> NoObs]

(***************************************************************************)
(* The public operation, from the call to its hand-over to                 *)
(* _execute_transaction: validation and encoding, no chain interaction.    *)
(***************************************************************************)
Call(o, intents) ==
  /\ pc[o] = "idle"
  /\ \E it \in intents : \E r \in {Encode(it)} :
          /\ intent' = [intent EXCEPT ![o] = <<it>>]
          /\ IF r.ok
             THEN /\ pc' = [pc EXCEPT ![o] = "encoded"]
                  /\ call' = [call EXCEPT ![o] = <<r.v>>]
                  /\ outcome' = outcome
             ELSE /\ pc' = [pc EXCEPT ![o] = "raised"]
                  /\ call' = call
                  /\ outcome' = [outcome EXCEPT ![o] = Raised(r.v)]
  /\ UNCHANGED <<client, order_list, ws, client_token_info, request, base_quote, token_info, chain_count, mempool, tx, receipt, obs>>

(***************************************************************************)
(* A StandardClient trading method: its own computation, then the call of  *)
(* the contract layer's method, whose result it returns.                   *)
(***************************************************************************)
ClientCall(o, requests) ==
  /\ pc[o] = "idle"
  /\ \E rq \in requests : \E w \in {StandardClient(rq, client_token_info)} :
       /\ request' = [request EXCEPT ![o] = <<rq>>]
       /\ IF ~w.ok
          THEN /\ pc' = [pc EXCEPT ![o] = "raised"]
               /\ outcome' = [outcome EXCEPT ![o] = Raised(w.v)]
               /\ UNCHANGED <<intent, call>>
          ELSE \E r \in {Encode(w.v)} :
                 /\ intent' = [intent EXCEPT ![o] = <<w.v>>]
                 /\ IF r.ok
                    THEN /\ pc' = [pc EXCEPT ![o] = "encoded"]
                         /\ call' = [call EXCEPT ![o] = <<r.v>>]
                         /\ outcome' = outcome
                    ELSE /\ pc' = [pc EXCEPT ![o] = "raised"]
                         /\ call' = call
                         /\ outcome' = [outcome EXCEPT ![o] = Raised(r.v)]
  /\ UNCHANGED <<client, order_list, ws, client_token_info, base_quote, token_info, chain_count, mempool, tx,
                 receipt, obs>>

\* The caller builds the list of order dicts it will pass to batch calls.
CallerBuildsList(lists) ==
  /\ order_list = <<>>
  /\ \E l \in lists : order_list' = <<l>>
  /\ UNCHANGED <<client, ws, client_token_info, request, base_quote, token_info, chain_count, mempool,
                 pc, intent, call, tx, receipt, outcome, obs>>

\* the prices the caller's list holds are within the range the model
\* multiplies in
PricesWithin(data, max) ==
  \A k \in DOMAIN data.v :
    (data.v[k].t = "dict" /\ "price" \in DOMAIN data.v[k].v /\ data.v[k].v.price.t = "int")
    => data.v[k].v.price.v <= max

\* StandardClient.create_orders / update_orders called with the caller's
\* list: the two loops, which assign into the caller's dicts, then the call
\* of the contract layer's method with the same list.
ClientBatchCall(o, requests, max) ==
  /\ pc[o] = "idle"
  /\ order_list # <<>>
  /\ PricesWithin(order_list[1], max)
  /\ \E t \in requests : \E rq \in {[op |-> t.op, a |-> [t.a EXCEPT !.data = order_list[1]]]} :
     \E w \in {IF rq.op = "create_orders"
                THEN StandardClient_create_orders(rq.a, client_token_info)
                ELSE StandardClient_update_orders(rq.a, client_token_info)} :
       /\ request' = [request EXCEPT ![o] = <<rq>>]
       /\ order_list' = <<w.data>>
       /\ IF ~w.r.ok
          THEN /\ pc' = [pc EXCEPT ![o] = "raised"]
               /\ outcome' = [outcome EXCEPT ![o] = Raised(w.r.v)]
               /\ UNCHANGED <<intent, call>>
          ELSE \E r \in {Encode(w.r.v)} :
                 /\ intent' = [intent EXCEPT ![o] = <<w.r.v>>]
                 /\ IF r.ok
                    THEN /\ pc' = [pc EXCEPT ![o] = "encoded"]
                         /\ call' = [call EXCEPT ![o] = <<r.v>>]
                         /\ outcome' = outcome
                    ELSE /\ pc' = [pc EXCEPT ![o] = "raised"]
                         /\ call' = call
                         /\ outcome' = [outcome EXCEPT ![o] = Raised(r.v)]
  /\ UNCHANGED <<client, ws, client_token_info, base_quote, token_info, chain_count, mempool, tx,
                 receipt, obs>>

(***************************************************************************)
(* _execute_transaction.                                                   *)
(***************************************************************************)
\* except Exception as e: print(...)  -- the function then ends without a
\* return statement, so the caller receives None (lines 146-147).
OnException(e) == Returned(PyNone)

\* self.w3.eth.get_transaction_count(self.address)  (line 100): the count
\* of confirmed transactions; pending ones are not counted.
FetchNoncePending == chain_count + Cardinality(mempool)
\* a count kept from the client's first transaction instead of a fresh read
FetchNonceStored == IF tx["op1"] # <<>> THEN tx["op1"][1].nonce ELSE chain_count
FetchNonce == chain_count

\* a transaction built without the count that was read
BuildTxFixedNonce(c, nonce) ==
  [function_name |-> c.function_name, args |-> c.args, nonce |-> 0, gas |-> c.gas]
\* tx_params and build_transaction (lines 98-109)
BuildTx(c, nonce) ==
  LET tx_params == [function_name |-> c.function_name, args |-> c.args,
                    nonce |-> nonce, gas |-> c.gas]
  IN IF c.eth_amount > 0 THEN SetKeys(tx_params, [value |-> c.eth_amount])
     ELSE tx_params

\* Lines 92-110: nonce read, build, sign; all before the first await.  The
\* RPC read can fail, which raises inside the try.
ExecuteBuild(o) ==
  /\ pc[o] = "encoded"
  /\ \E rpc_ok \in BOOLEAN :
       IF rpc_ok
       THEN /\ tx' = [tx EXCEPT ![o] = <<BuildTx(call[o][1], FetchNonce)>>]
            /\ pc' = [pc EXCEPT ![o] = "signed"]
            /\ obs' = [obs EXCEPT ![o].nonce_reads = @ + 1, ![o].signs = @ + 1]
            /\ outcome' = outcome
       ELSE /\ tx' = tx
            /\ pc' = [pc EXCEPT ![o] = "returned"]
            /\ obs' = [obs EXCEPT ![o].nonce_reads = @ + 1]
            /\ outcome' = [outcome EXCEPT ![o] = OnException("rpc")]
  /\ UNCHANGED <<client, order_list, ws, client_token_info, request, base_quote, token_info, chain_count, mempool, intent, call, receipt>>

\* The network takes a broadcast transaction only if its nonce is not below
\* the account's confirmed count and no pending transaction of the account
\* already holds that nonce at the same gas price.
NetworkAccepts(o) ==
  /\ tx[o][1].nonce >= chain_count
  /\ \A p \in mempool : tx[p][1].nonce # tx[o][1].nonce

\* a rejected broadcast sends the invocation back to the nonce read
SendTxRetry(o) ==
  /\ pc[o] = "signed"
  /\ obs' = [obs EXCEPT ![o].broadcasts = @ + 1]
  /\ \E net_ok \in BOOLEAN :
       IF net_ok /\ NetworkAccepts(o)
       THEN /\ mempool' = mempool \cup {o}
            /\ pc' = [pc EXCEPT ![o] = "broadcast"]
       ELSE /\ mempool' = mempool
            /\ pc' = [pc EXCEPT ![o] = "encoded"]
  /\ UNCHANGED <<client, order_list, ws, client_token_info, request, base_quote, token_info, chain_count, intent, call, tx, receipt, outcome>>

\* Line 112: await asyncio.to_thread(self.send_tx, signed_tx).  A rejected
\* broadcast raises inside the try.
SendTx(o) ==
  /\ pc[o] = "signed"
  /\ obs' = [obs EXCEPT ![o].broadcasts = @ + 1]
  /\ \E net_ok \in BOOLEAN :
       IF net_ok /\ NetworkAccepts(o)
       THEN /\ mempool' = mempool \cup {o}
            /\ pc' = [pc EXCEPT ![o] = "broadcast"]
            /\ outcome' = outcome
       ELSE /\ mempool' = mempool
            /\ pc' = [pc EXCEPT ![o] = "returned"]
            /\ outcome' = [outcome EXCEPT ![o] = OnException("rejected")]
  /\ UNCHANGED <<client, order_list, ws, client_token_info, request, base_quote, token_info, chain_count, intent, call, tx, receipt>>

\* The network mines a pending transaction whose nonce is the account's next.
Mine(o, receipts) ==
  /\ o \in mempool
  /\ tx[o][1].nonce = chain_count
  /\ \E r \in receipts : receipt' = [receipt EXCEPT ![o] = <<r>>]
  /\ chain_count' = chain_count + 1
  /\ mempool' = mempool \ {o}
  /\ UNCHANGED <<client, order_list, ws, client_token_info, request, base_quote, token_info, pc, intent, call, tx, outcome, obs>>

\* a receipt wait whose failure does not stop the status check
WaitTimeoutContinues(o) ==
  /\ pc[o] = "broadcast"
  /\ receipt[o] = <<>>
  /\ pc' = [pc EXCEPT ![o] = "returned"]
  /\ outcome' = [outcome EXCEPT ![o] = OnException("failed")]
  /\ obs' = [obs EXCEPT ![o].status_checks = @ + 1]
  /\ UNCHANGED <<client, order_list, ws, client_token_info, request, base_quote, token_info, chain_count, mempool, intent, call, tx,
                 receipt>>
\* Line 113: wait_for_transaction_receipt gives up (TimeExhausted) while the
\* transaction is still pending; raises inside the try.
WaitTimeout(o) ==
  /\ pc[o] = "broadcast"
  /\ receipt[o] = <<>>
  /\ pc' = [pc EXCEPT ![o] = "returned"]
  /\ outcome' = [outcome EXCEPT ![o] = OnException("timeout")]
  /\ UNCHANGED <<client, order_list, ws, client_token_info, request, base_quote, token_info, chain_count, mempool, intent, call, tx,
                 receipt, obs>>

\* if tx_receipt.status == 0: raise Exception("Transaction failed")
StatusFailedNever(r) == FALSE
StatusFailed(r) == r.status = 0

\* order_infos[0] on what _parse_decoded_logs returned
Index0(x) ==
  IF x.t = "list" /\ Len(x.v) > 0 THEN Ok(x.v[1]) ELSE Err("KeyError", -1)

\* Lines 125-140: the result dict.
BuildResult(o, r, decoded_events, order_infos) ==
  LET result == [tx_receipt |-> r, tx_hash |-> o, decoded_logs |-> decoded_events,
                 gas_used |-> r.gasUsed, status |-> r.status]
  IN IF PyLen(order_infos) = 1
     THEN IF Index0(order_infos).ok
          THEN Ok(SetKeys(result, [order_info |-> PyDict(Index0(order_infos).v)]))
          ELSE Index0(order_infos)
     ELSE IF PyLen(order_infos) = 0
          THEN Ok(SetKeys(result, [order_info |-> PyNone]))
          ELSE Ok(SetKeys(result, [order_infos |-> order_infos]))

\* Lines 115-140, once the receipt is there: status check, decode, map,
\* result.  What the caller gets and which steps ran.
Finish(o, r, bq, ti) ==
  IF StatusFailed(r)
  THEN [outcome |-> OnException("failed"), decodes |-> <<>>, maps |-> <<>>]
  ELSE LET run == DecodeRun(r.logs)
           decoded_events == DecodeReturn(run)
           order_infos == ParseDecodedLogs(decoded_events, bq, ti)
           res == BuildResult(o, r, decoded_events, order_infos)
       IN [outcome |-> IF res.ok THEN Returned(PyDict(res.v)) ELSE OnException("result"),
           decodes |-> <<run>>, maps |-> <<order_infos>>]

\* a mapper that drops the pairs of the receipt's logs from self.base_quote
ExecuteFinishWrites(o) ==
  /\ pc[o] = "broadcast"
  /\ receipt[o] # <<>>
  /\ LET f == Finish(o, receipt[o][1], base_quote, token_info)
     IN /\ outcome' = [outcome EXCEPT ![o] = f.outcome]
        /\ obs' = [obs EXCEPT ![o].status_checks = @ + 1,
                              ![o].decodes = f.decodes, ![o].maps = f.maps]
  /\ base_quote' =
       [k \in DOMAIN base_quote \ {Lower(receipt[o][1].logs[i].pair) :
                                      i \in DOMAIN receipt[o][1].logs} |-> base_quote[k]]
  /\ pc' = [pc EXCEPT ![o] = "returned"]
  /\ UNCHANGED <<client, order_list, ws, client_token_info, request, token_info, chain_count, mempool, intent, call, tx, receipt>>
ExecuteFinish(o) ==
  /\ pc[o] = "broadcast"
  /\ receipt[o] # <<>>
  /\ LET f == Finish(o, receipt[o][1], base_quote, token_info)
     IN /\ outcome' = [outcome EXCEPT ![o] = f.outcome]
        /\ obs' = [obs EXCEPT ![o].status_checks = @ + 1,
                              ![o].decodes = f.decodes, ![o].maps = f.maps]
  /\ pc' = [pc EXCEPT ![o] = "returned"]
  /\ UNCHANGED <<client, order_list, ws, client_token_info, request, base_quote, token_info, chain_count, mempool, intent, call, tx, receipt>>

NextOf(ops, intents, receipts) ==
  \E o \in ops :
    \/ Call(o, intents)
    \/ ExecuteBuild(o)
    \/ SendTx(o)
    \/ Mine(o, receipts)
    \/ WaitTimeout(o)
    \/ ExecuteFinish(o)

(***************************************************************************)
(* The worlds the specifications run in: metadata the caller constructed   *)
(* the client with, intents the caller issues, receipts the network gives. *)
(***************************************************************************)
PairEntry(base, quote, symbol) == [base |-> base, quote |-> quote, symbol |-> symbol]
TokenEntry(decimals, symbol) == [decimals |-> decimals, symbol |-> symbol]

FullBaseQuote ==
  (Lower(Pair1) :> PairEntry(BaseTok, QuoteTok, "B/Q")) @@
  (Lower(Pair2) :> PairEntry(QuoteTok, BaseTok, "Q/B"))
FullTokenInfo ==
  (BaseTok :> TokenEntry(18, "B")) @@ (QuoteTok :> TokenEntry(6, "Q"))

MetaFull == [base_quote |-> FullBaseQuote, token_info |-> FullTokenInfo]
\* Pair2 is not listed
MetaNoPair2 ==
  [base_quote |-> (Lower(Pair1) :> PairEntry(BaseTok, QuoteTok, "B/Q")),
   token_info |-> FullTokenInfo]
\* the quote token of Pair1 is not listed
MetaNoQuoteTok ==
  [base_quote |-> FullBaseQuote, token_info |-> (BaseTok :> TokenEntry(18, "B"))]
\* pair entries without a symbol
MetaNoSymbol ==
  [base_quote |-> (Lower(Pair1) :> [base |-> BaseTok, quote |-> QuoteTok]) @@
                  (Lower(Pair2) :> [base |-> QuoteTok, quote |-> BaseTok]),
   token_info |-> FullTokenInfo]

MetaSet == {MetaFull, MetaNoPair2, MetaNoQuoteTok, MetaNoSymbol}

Recipient == <<"a", "1">>
\* not a hex address
BadAddress == <<"g", "1">>

ValidArgs ==
  [base |-> PyStr(BaseTok), quote |-> PyStr(QuoteTok), recipient |-> PyStr(Recipient),
   amount |-> PyInt(5), price |-> PyInt(7), n |-> PyInt(1), slippage_limit |-> PyInt(0),
   eth_amount |-> PyInt(3), is_maker |-> PyBool(TRUE), gas |-> DefaultGas,
   data |-> PyNone]

ValidItem ==
  [base |-> PyStr(BaseTok), quote |-> PyStr(QuoteTok), isBid |-> PyBool(TRUE),
   isLimit |-> PyBool(TRUE), orderId |-> PyInt(2), price |-> PyInt(7),
   amount |-> PyInt(5), n |-> PyInt(1), recipient |-> PyStr(Recipient),
   isETH |-> PyBool(FALSE)]

\* a dict without one of its keys
Without(d, key) == [k \in DOMAIN d \ {key} |-> d[k]]

SingleIntent(op, base, quote) ==
  [op |-> op, a |-> [ValidArgs EXCEPT !.base = PyStr(base), !.quote = PyStr(quote)]]
BatchIntent(op, data) == [op |-> op, a |-> [ValidArgs EXCEPT !.data = data]]

EngineCk == ToChecksumAddress(MatchingEngine)
Placed1 == MkLog(EngineCk, "OrderPlaced", Pair1, TRUE, 1)
Placed2 == MkLog(Lower(EngineCk), "OrderPlaced", Pair2, FALSE, 2)

MkReceipt(status, logs) == [status |-> status, gasUsed |-> 21000, logs |-> logs]

(***************************************************************************)
(* Spec: two unserialized invocations on one account; every operation      *)
(* kind, a few receipts.                                                   *)
(***************************************************************************)
Intents ==
  {SingleIntent(op, BaseTok, QuoteTok) : op \in SingleOps}
  \cup {SingleIntent("limit_buy", BadAddress, QuoteTok),
        SingleIntent("market_sell_eth", BaseTok, BadAddress)}
  \cup {BatchIntent("create_orders", PyList(<<PyDict(ValidItem)>>)),
        BatchIntent("update_orders", PyList(<<PyDict(ValidItem)>>)),
        BatchIntent("cancel_orders",
                    PyList(<<PyStr(FormatOrderId(BaseTok, QuoteTok, TRUE, 1))>>)),
        BatchIntent("create_orders", PyList(<<>>)),
        BatchIntent("cancel_orders", PyList(<<PyStr(<<"a", "b">>)>>))}

Receipts ==
  {MkReceipt(0, <<>>), MkReceipt(0, <<Placed1>>), MkReceipt(1, <<>>),
   MkReceipt(1, <<Placed1>>), MkReceipt(1, <<Placed1, Placed2>>)}

Init == InitWith({MetaFull})
Next == NextOf(Ops, Intents, Receipts)
Spec == Init /\ [][Next]_vars

(***************************************************************************)
(* Claims checked under Spec.                                              *)
(***************************************************************************)
Done(o) == pc[o] \in {"returned", "raised"}
HasReceipt(o) == receipt[o] # <<>>

\* a complete result bundle: tx hash, gas used, status, decoded events and
\* order info
IsBundle(v) ==
  /\ v.t = "dict"
  /\ {"tx_hash", "gas_used", "status", "decoded_logs"} \subseteq DOMAIN v.v
  /\ {"order_info", "order_infos"} \cap DOMAIN v.v # {}

\* C1: every public trading operation ends either by returning a complete
\* result bundle or by raising to its caller; in particular a rejected
\* broadcast or a failure-status receipt reaches the caller as a raised
\* error, never as a normal return without a bundle.
C1_BundleOrRaise ==
  \A o \in Ops :
    Done(o) =>
      \/ outcome[o].kind = "raised"
      \/ outcome[o].kind = "returned" /\ IsBundle(outcome[o].value)

\* C2: when the confirmed receipt has status 0, event decoding and order-info
\* mapping are never run for that call and no result bundle is returned.
C2_NoDecodeOnFailure ==
  \A o \in Ops :
    (HasReceipt(o) /\ receipt[o][1].status = 0) =>
      /\ obs[o].decodes = <<>>
      /\ obs[o].maps = <<>>
      /\ ~(outcome[o].kind = "returned" /\ outcome[o].value.t = "dict")

\* C2 witness: a call whose receipt has status 0 and carries engine logs has
\* gone through the status check and returned.
C2_Witness ==
  \E o \in Ops :
    /\ pc[o] = "returned" /\ HasReceipt(o)
    /\ receipt[o][1].status = 0 /\ receipt[o][1].logs # <<>>
    /\ obs[o].status_checks = 1

\* the OrderPlaced logs of the matching engine in a receipt
PlacedLogs(r) ==
  {i \in DOMAIN r.logs :
     Lower(r.logs[i].address) = Lower(MatchingEngine) /\ r.logs[i].topic = "OrderPlaced"}

\* C5: the bundle of a successful call carries a single order_info entry (the
\* OrderInfo record) if and only if the receipt produced exactly one
\* OrderInfo, and carries an order_infos list when there are zero or several.
C5_OrderInfoKey ==
  \A o \in Ops :
    (pc[o] = "returned" /\ outcome[o].value.t = "dict") =>
      LET b == outcome[o].value.v
          n == Cardinality(PlacedLogs(receipt[o][1]))
      IN /\ ("order_info" \in DOMAIN b /\ b.order_info.t = "dict") <=> (n = 1)
         /\ (n # 1) => ("order_infos" \in DOMAIN b /\ b.order_infos.t = "list")

\* C10: no lock between nonce retrieval and broadcast.  An invocation that
\* reads its nonce while another invocation's transaction carrying the
\* account's current count is still unconfirmed builds and signs with that
\* same nonce, and of two transactions with the same nonce at most one is
\* ever confirmed.
C10_StaleNonce ==
  /\ [][\A o \in Ops : \A p \in Ops \ {o} :
          ( /\ pc[o] = "encoded" /\ pc'[o] = "signed"
            /\ tx[p] # <<>> /\ ~HasReceipt(p)
            /\ tx[p][1].nonce = chain_count )
          => tx'[o][1].nonce = tx[p][1].nonce]_vars
  /\ [](\A o \in Ops : \A p \in Ops \ {o} :
          (tx[o] # <<>> /\ tx[p] # <<>> /\ tx[o][1].nonce = tx[p][1].nonce)
          => ~(HasReceipt(o) /\ HasReceipt(p)))

\* C10 witness: both invocations signed with the same nonce, the first was
\* broadcast before the second read its nonce and has been confirmed
\* successfully, the second was rejected.
C10_Witness ==
  \E o \in Ops : \E p \in Ops \ {o} :
    /\ tx[o] # <<>> /\ tx[p] # <<>> /\ tx[o][1].nonce = tx[p][1].nonce
    /\ HasReceipt(o) /\ receipt[o][1].status = 1
    /\ obs[p].broadcasts = 1 /\ pc[p] = "returned" /\ ~HasReceipt(p)

GatherOps == {"market_buy", "market_sell", "limit_buy", "limit_sell"}

\* the invocations are in flight together: o's transaction is pending and
\* p has signed with the same account count
Overlapped(o, p) ==
  /\ o \in mempool /\ pc[p] = "signed"
  /\ tx[o][1].nonce = tx[p][1].nonce
  /\ intent[o][1].op \in GatherOps /\ intent[p][1].op \in GatherOps

\* C11: trading operations (market_buy, market_sell, limit_buy, limit_sell)
\* issued concurrently on one client all complete successfully, each
\* returning its own transaction result: no step ends one of two
\* invocations in flight together without a result bundle.
C11_GatherAllSucceed ==
  [][\A o \in Ops : \A p \in Ops \ {o} :
       (Overlapped(o, p) /\ pc'[p] = "returned")
       => (outcome'[p].kind = "returned" /\ IsBundle(outcome'[p].value))]_vars

\* C14: no internal retry.  Each invocation reads the account nonce at most
\* once, signs at most one transaction and broadcasts at most one signed
\* transaction, whatever its outcome.
C14_NoRetry ==
  \A o \in Ops :
    /\ obs[o].nonce_reads <= 1
    /\ obs[o].signs <= 1
    /\ obs[o].broadcasts <= 1
    /\ obs[o].status_checks <= 1

\* C14 witness: one invocation ended on a rejected broadcast and the other
\* on a reverted receipt, each after a single nonce read, signature and
\* broadcast.
C14_Witness ==
  \E o \in Ops : \E p \in Ops \ {o} :
    /\ pc[o] = "returned" /\ obs[o].broadcasts = 1 /\ ~HasReceipt(o)
    /\ o \notin mempool /\ obs[o].status_checks = 0
    /\ pc[p] = "returned" /\ HasReceipt(p) /\ receipt[p][1].status = 0
    /\ obs[p].status_checks = 1 /\ obs[p].nonce_reads = 1 /\ obs[p].signs = 1

\* which steps of _execute_transaction an invocation has run, as 0/1 flags in
\* the order of the code
StepsRun(o) ==
  << obs[o].nonce_reads,
     IF tx[o] # <<>> THEN 1 ELSE 0,
     obs[o].signs,
     obs[o].broadcasts,
     IF obs[o].broadcasts = 1 /\ (o \in mempool \/ HasReceipt(o)) THEN 1 ELSE 0,
     obs[o].status_checks,
     Len(obs[o].decodes),
     Len(obs[o].maps),
     IF outcome[o].kind = "returned" /\ IsBundle(outcome[o].value) THEN 1 ELSE 0 >>

\* C23: within one invocation the steps run in the strict order nonce read,
\* build, sign, broadcast, receipt wait, status check, decoding, mapping,
\* return of the bundle: at every moment the steps that have run are a
\* prefix of that order, each at most once.  A step that raised prevents
\* every later one: no status check without a receipt, no decoding after a
\* failed status check, and nothing runs once the invocation has returned.
C23_StepOrder ==
  /\ [](\A o \in Ops :
          /\ \A k \in DOMAIN StepsRun(o) : StepsRun(o)[k] \in {0, 1}
          /\ \A k \in 2..Len(StepsRun(o)) : StepsRun(o)[k] <= StepsRun(o)[k - 1]
          /\ obs[o].status_checks = 1 => HasReceipt(o)
          /\ obs[o].decodes # <<>> => receipt[o][1].status # 0)
  /\ [][\A o \in Ops : pc[o] = "returned" => (obs'[o] = obs[o] /\ tx'[o] = tx[o])]_vars

\* C23 witness: one invocation ran every step and returned its bundle, the
\* other stopped at the receipt wait and ran nothing after it.
C23_Witness ==
  \E o \in Ops : \E p \in Ops \ {o} :
    /\ StepsRun(o) = <<1, 1, 1, 1, 1, 1, 1, 1, 1>>
    /\ pc[p] = "returned" /\ StepsRun(p) = <<1, 1, 1, 1, 1, 0, 0, 0, 0>>

\* C24: every transaction an invocation builds carries the account count
\* read from the network during that same invocation, in the step that
\* builds it; no count from an earlier invocation is reused.
C24_FreshNonce ==
  [][\A o \in Ops :
       (pc[o] = "encoded" /\ pc'[o] = "signed")
       => /\ tx'[o][1].nonce = chain_count
          /\ obs'[o].nonce_reads = obs[o].nonce_reads + 1]_vars

\* C24 witness: the second invocation built its transaction after the
\* first one's was confirmed, and carries the count read then, not the
\* first one's.
C24_Witness ==
  \E o \in Ops : \E p \in Ops \ {o} :
    /\ HasReceipt(o) /\ tx[o][1].nonce = 0
    /\ pc[p] = "signed" /\ tx[p][1].nonce = 1 /\ chain_count = 1

C27_SerializedNonces ==
  [][\A o \in Ops : \A p \in Ops \ {o} :
       ( /\ pc[p] = "encoded" /\ pc'[p] = "signed"
         /\ pc[o] = "returned" /\ tx[o] # <<>> /\ HasReceipt(o) )
       => tx'[p][1].nonce > tx[o][1].nonce]_vars

\* C27 witness: both invocations have returned a bundle, the second holding
\* the nonce after the first one's.
C27_Witness ==
  \E o \in Ops : \E p \in Ops \ {o} :
    /\ pc[o] = "returned" /\ IsBundle(outcome[o].value)
    /\ pc[p] = "returned" /\ IsBundle(outcome[p].value)
    /\ tx[p][1].nonce = tx[o][1].nonce + 1

(***************************************************************************)
(* SpecDecode: one invocation, every receipt of up to MaxLogs logs drawn   *)
(* from LogSet, under each metadata configuration of MetaSet.              *)
(***************************************************************************)
EngineUpper == [i \in DOMAIN MatchingEngine |-> UpperChar(MatchingEngine[i])]

LogSet ==
  {Placed1, Placed2,
   MkLog(EngineUpper, "OrderMatched", Pair1, TRUE, 1),
   MkLog(EngineCk, "OrderCanceled", Pair1, FALSE, 2),
   MkLog(EngineCk, "NewMarketPrice", Pair2, FALSE, 1),
   MkLog(EngineCk, "PairAdded", Pair1, FALSE, 1),
   MkLog(EngineCk, "ListingCostSet", Pair1, FALSE, 1),
   MkLog(EngineCk, "PairUpdated", Pair1, FALSE, 1),
   MkLog(EngineCk, "Transfer", Pair1, FALSE, 1),
   MkLog(Lower(EngineCk), "NoTopics", Pair1, FALSE, 1),
   MkLog(TokenContract, "Transfer", Pair1, FALSE, 1),
   MkLog(TokenContract, "OrderPlaced", Pair1, TRUE, 2)}

LogSeqs == UNION {[1..k -> LogSet] : k \in 0..MaxLogs}

DecodeReceipts == {MkReceipt(1, logs) : logs \in LogSeqs} \cup {MkReceipt(0, <<>>)}
DecodeIntents ==
  {SingleIntent("limit_buy", BaseTok, QuoteTok), SingleIntent("limit_buy", BadAddress, QuoteTok)}

InitDecode == InitWith(MetaSet)
NextDecode == NextOf({"op1"}, DecodeIntents, DecodeReceipts)
SpecDecode == InitDecode /\ [][NextDecode]_vars

\* the invocation has decoded and mapped its receipt
Decoded(o) == pc[o] = "returned" /\ obs[o].decodes # <<>>
RunOf(o) == obs[o].decodes[1]
LogsOf(o) == receipt[o][1].logs
Range(f) == {f[i] : i \in DOMAIN f}

\* the OrderInfo records a mapper result holds
Records(x) == IF x.t = "dict" THEN <<x.v>> ELSE x.v
InfosOf(o) == Records(obs[o].maps[1])

IsEngineLog(log) == Lower(log.address) = Lower(MatchingEngine)
KnownShapes == Range(EventsToTry)

\* the metadata the mapper reads for one decoded event is all there
MetadataPresent(e) ==
  LET pk == Lower(e.args.pair)
  IN CASE e.event = "OrderPlaced" ->
            /\ HasEntry(base_quote, pk, {"base", "quote", "symbol"})
            /\ HasEntry(token_info,
                        IF e.args.isBid THEN base_quote[pk].quote ELSE base_quote[pk].base,
                        {"decimals", "symbol"})
       [] e.event = "OrderMatched" ->
            /\ HasEntry(base_quote, pk, {"base", "quote"})
            /\ HasEntry(token_info, base_quote[pk].base, {"decimals", "symbol"})
            /\ HasEntry(token_info, base_quote[pk].quote, {"decimals", "symbol"})
       [] e.event \in {"NewMarketPrice", "PairAdded"} ->
            /\ HasEntry(base_quote, pk, {"base", "quote", "symbol"})
            /\ HasEntry(token_info, base_quote[pk].base, {"symbol"})
            /\ HasEntry(token_info, base_quote[pk].quote, {"symbol"})
       [] OTHER -> TRUE

\* the OrderInfo an OrderPlaced event stands for
InfoFor(e) ==
  LET pk == Lower(e.args.pair)
  IN [id |-> FormatOrderId(base_quote[pk].base, base_quote[pk].quote, e.args.isBid, e.args.id),
      pair |-> pk, base |-> base_quote[pk].base, quote |-> base_quote[pk].quote,
      isBid |-> e.args.isBid, orderId |-> e.args.id,
      price |-> e.args.price, amount |-> e.args.placed]

IsPlacedEvent(e) == e.event = "OrderPlaced"

\* C6: when the pair or token metadata needed for one decoded event is
\* missing, only that event's record is dropped: every OrderPlaced event of
\* the same receipt whose metadata is present still yields its OrderInfo.
C6_OnlyThatRecordDropped ==
  \A o \in Ops :
    Decoded(o) =>
      \A k \in DOMAIN RunOf(o).decoded_logs :
        LET e == RunOf(o).decoded_logs[k]
        IN (IsPlacedEvent(e) /\ MetadataPresent(e)) => InfoFor(e) \in Range(InfosOf(o))

\* C7: when all needed metadata is present, the mapper yields exactly one
\* OrderInfo per OrderPlaced event and none for any other event kind, as
\* distinct records in the order of their OrderPlaced logs.
C7_OnePerPlacedInOrder ==
  \A o \in Ops :
    (Decoded(o) /\ \A k \in DOMAIN RunOf(o).decoded_logs :
                      MetadataPresent(RunOf(o).decoded_logs[k])) =>
      LET placed == SelectSeq(RunOf(o).decoded_logs, IsPlacedEvent)
      IN InfosOf(o) = [k \in DOMAIN placed |-> InfoFor(placed[k])]

\* C7 witness: a receipt with two different OrderPlaced events and an event
\* of another kind between them, all metadata present, has been mapped to
\* two records.
C7_Witness ==
  \E o \in Ops :
    /\ Decoded(o)
    /\ \A k \in DOMAIN RunOf(o).decoded_logs : MetadataPresent(RunOf(o).decoded_logs[k])
    /\ Len(RunOf(o).decoded_logs) = 3
    /\ IsPlacedEvent(RunOf(o).decoded_logs[1])
    /\ RunOf(o).decoded_logs[2].event = "OrderMatched"
    /\ IsPlacedEvent(RunOf(o).decoded_logs[3])
    /\ Len(InfosOf(o)) = 2 /\ InfosOf(o)[1] # InfosOf(o)[2]

\* C8: of the N logs of a receipt exactly the M whose address equals the
\* matching-engine address case-insensitively are tried for decoding; the
\* other N-M are never tried and contribute no DecodedEvent and no
\* diagnostic.
C8_OnlyEngineLogsTried ==
  \A o \in Ops :
    Decoded(o) =>
      LET engine == {i \in DOMAIN LogsOf(o) : IsEngineLog(LogsOf(o)[i])}
          run == RunOf(o)
      IN /\ Range(run.attempted) = engine
         /\ Len(run.attempted) = Cardinality(engine)
         /\ \A i \in DOMAIN LogsOf(o) \ engine :
              /\ \A k \in DOMAIN run.decoded_logs : run.decoded_logs[k].log_index # i
              /\ i \notin Range(run.diagnostics)

\* C8 witness: a decoded receipt of three logs: two engine logs whose
\* addresses differ in letter case and one log of another contract.
C8_Witness ==
  \E o \in Ops :
    /\ Decoded(o) /\ Len(LogsOf(o)) = 3
    /\ Len(RunOf(o).attempted) = 2
    /\ \E i, j \in DOMAIN LogsOf(o) :
         /\ IsEngineLog(LogsOf(o)[i]) /\ IsEngineLog(LogsOf(o)[j])
         /\ LogsOf(o)[i].address # LogsOf(o)[j].address

\* C9: a matching-engine log that decodes as none of the seven known shapes
\* yields no DecodedEvent and raises nothing (a call that received a
\* successful receipt returns its bundle); every other engine log of the
\* receipt is still decoded, and the decoded events keep the relative order
\* of their logs.
C9_UndecodableLogDropped ==
  \A o \in Ops :
    (pc[o] = "returned" /\ obs[o].status_checks = 1 /\ receipt[o][1].status = 1) =>
      LET run == RunOf(o)
          logs == LogsOf(o)
      IN /\ outcome[o].kind = "returned" /\ outcome[o].value.t = "dict"
         /\ \A i \in DOMAIN logs :
              IsEngineLog(logs[i]) =>
                Cardinality({k \in DOMAIN run.decoded_logs : run.decoded_logs[k].log_index = i})
                  = IF logs[i].topic \in KnownShapes THEN 1 ELSE 0
         /\ \A k \in DOMAIN run.decoded_logs :
              /\ run.decoded_logs[k].event = logs[run.decoded_logs[k].log_index].topic
              /\ k > 1 => run.decoded_logs[k - 1].log_index < run.decoded_logs[k].log_index

\* C9 witness: an undecodable engine log lies between two decodable ones and
\* the call has returned its bundle with both decoded.
C9_Witness ==
  \E o \in Ops :
    /\ Decoded(o) /\ Len(LogsOf(o)) = 3
    /\ IsEngineLog(LogsOf(o)[2]) /\ LogsOf(o)[2].topic \notin KnownShapes
    /\ Len(RunOf(o).decoded_logs) = 2
    /\ RunOf(o).diagnostics = <<2>>
    /\ outcome[o].value.t = "dict"

\* the decimal count governing a placed amount: the quote token's for a bid,
\* the base token's for an ask
PlacedDecimals(e) ==
  LET pk == Lower(e.args.pair)
  IN token_info[IF e.args.isBid THEN base_quote[pk].quote ELSE base_quote[pk].base].decimals

\* C17: decoding and mapping a receipt that contains one OrderPlaced log for
\* a bid order on pair P (base B, quote Q) yields exactly one OrderInfo whose
\* id is "B_Q_True_<orderId>" and whose amount is the raw placed amount
\* divided by 10^d, d the decimal count of the quote token.
C17_DecimalAdjustedAmount ==
  \A o \in Ops :
    ( /\ Decoded(o) /\ Len(LogsOf(o)) = 1 /\ Len(RunOf(o).decoded_logs) = 1
      /\ IsPlacedEvent(RunOf(o).decoded_logs[1])
      /\ RunOf(o).decoded_logs[1].args.isBid
      /\ MetadataPresent(RunOf(o).decoded_logs[1]) )
    => /\ Len(InfosOf(o)) = 1
       /\ InfosOf(o)[1].id =
            FormatOrderId(base_quote[Lower(LogsOf(o)[1].pair)].base,
                          base_quote[Lower(LogsOf(o)[1].pair)].quote,
                          TRUE, LogsOf(o)[1].id)
       /\ InfosOf(o)[1].amount * 10^PlacedDecimals(RunOf(o).decoded_logs[1])
            = LogsOf(o)[1].placed

\* the position in the run's trial record of the log with index i
TrialOf(run, i) == CHOOSE n \in DOMAIN run.attempted : run.attempted[n] = i

\* C22: each engine log yields at most one decoded event, and that event is
\* tagged with the first shape, in the fixed trial order, that decodes the
\* log without error; once a log is decoded no later shape is tried for it.
C22_FirstShapeWins ==
  \A o \in Ops :
    Decoded(o) =>
      LET run == RunOf(o)
      IN /\ \A i \in DOMAIN LogsOf(o) :
              Cardinality({k \in DOMAIN run.decoded_logs :
                             run.decoded_logs[k].log_index = i}) <= 1
         /\ \A k \in DOMAIN run.decoded_logs :
              LET e == run.decoded_logs[k]
                  log == LogsOf(o)[e.log_index]
              IN \E j \in DOMAIN EventsToTry :
                   /\ EventsToTry[j] = e.event
                   /\ ProcessLogOk(EventsToTry[j], log)
                   /\ \A j2 \in 1..(j - 1) : ~ProcessLogOk(EventsToTry[j2], log)
                   /\ run.trials[TrialOf(run, e.log_index)] = j

\* C22 witness: a receipt whose engine logs are decoded by the second and by
\* the first shape of the order; for the former the first shape was tried and
\* failed, for neither was a later shape tried.
C22_Witness ==
  \E o \in Ops :
    /\ Decoded(o) /\ Len(LogsOf(o)) = 2
    /\ Len(RunOf(o).decoded_logs) = 2
    /\ RunOf(o).decoded_logs[1].event = EventsToTry[2]
    /\ RunOf(o).decoded_logs[2].event = EventsToTry[1]
    /\ RunOf(o).trials = <<2, 1>>

(***************************************************************************)
(* SpecBatch: one invocation of a batch operation, on every batch of up to *)
(* MaxBatch items drawn from well-formed and malformed items, and on       *)
(* inputs that are no list.                                                *)
(***************************************************************************)
OrderItems ==
  {PyDict(ValidItem),
   PyDict([ValidItem EXCEPT !.isETH = PyBool(TRUE)]),
   PyDict(Without(ValidItem, "orderId")),
   PyDict([ValidItem EXCEPT !.price = PyStr(<<"4", "2">>)]),
   PyDict([ValidItem EXCEPT !.base = PyStr(BadAddress)]),
   PyDict([ValidItem EXCEPT !.recipient = PyInt(0)]),
   PyDict([ValidItem EXCEPT !.price = PyStr(<<"x">>)]),
   PyDict([ValidItem EXCEPT !.amount = PyNone]),
   PyStr(<<"a">>),
   PyInt(3)}
  \cup {PyDict(Without(ValidItem, f)) :
          f \in {"base", "quote", "isBid", "isLimit", "price", "amount", "n",
                 "recipient", "isETH"}}

\* order ids of one and of two digits
OrderIds == {0, 7, 12}

\* (base, quote, side, order id) tuples whose packed identifiers the caller
\* passes to cancel_orders; base as the metadata spells it or in checksum case
CancelTuples == {BaseTok, ToChecksumAddress(BaseTok)} \X {QuoteTok} \X BOOLEAN \X OrderIds

CancelItems ==
  {PyStr(FormatOrderId(t[1], t[2], t[3], t[4])) : t \in CancelTuples}
  \cup {PyStr(BaseTok \o <<"_">> \o QuoteTok \o <<"_">> \o PyStrBool(TRUE)),
        PyStr(FormatOrderId(BaseTok, QuoteTok, TRUE, 7) \o <<"_", "1">>),
        PyStr(FormatOrderId(BadAddress, QuoteTok, TRUE, 7)),
        PyStr(BaseTok \o <<"_">> \o QuoteTok \o <<"_", "T", "_", "x">>),
        PyInt(1),
        PyDict(ValidItem)}

Batches(items) == UNION {[1..k -> items] : k \in 0..MaxBatch}
NotLists == {PyNone, PyDict(ValidItem), PyStr(<<"a">>)}

\* well-formed items: a token order and two native-currency orders
TokenItem == PyDict(ValidItem)
EthItem100 == PyDict([ValidItem EXCEPT !.isETH = PyBool(TRUE), !.amount = PyInt(100)])
EthItem50 ==
  PyDict([ValidItem EXCEPT !.isETH = PyBool(TRUE), !.amount = PyStr(<<"5", "0">>)])
ValueItems == {TokenItem, EthItem100, EthItem50}

\* three items, two of them native-currency orders of 100 and 50
ScenarioBatch == <<EthItem100, TokenItem, EthItem50>>

\* gas the caller passes: below, at and above the floors of small batches
GasValues ==
  {0, GasFloor, 2 * GasFloor - 1, 2 * GasFloor, 3 * GasFloor + 1, 4 * GasFloor + 1}

WithGas(it, g) == [it EXCEPT !.a.gas = g]

BatchIntents ==
  {BatchIntent(op, PyList(b)) : op \in {"create_orders", "update_orders"},
                                b \in Batches(OrderItems)}
  \cup {BatchIntent("cancel_orders", PyList(b)) : b \in Batches(CancelItems)}
  \cup {BatchIntent(op, d) : op \in BatchOps, d \in NotLists}
  \cup {WithGas(BatchIntent(op, PyList(b)), g) :
          op \in {"create_orders", "update_orders"},
          b \in Batches(ValueItems) \cup {ScenarioBatch}, g \in GasValues}
  \cup {WithGas(BatchIntent("cancel_orders", PyList(b)), g) :
          b \in Batches({PyStr(FormatOrderId(BaseTok, QuoteTok, TRUE, 7))}),
          g \in GasValues}

BatchReceipts == {MkReceipt(0, <<>>), MkReceipt(1, <<Placed1>>)}

InitBatch == InitWith({MetaFull})
NextBatch == NextOf({"op1"}, BatchIntents, BatchReceipts)
SpecBatch == InitBatch /\ [][NextBatch]_vars

Called(o) == intent[o] # <<>>
OpOf(o) == intent[o][1].op
DataOf(o) == intent[o][1].a.data

IsAddressValue(x) == x.t = "str" /\ IsAddress(x.v)
IsNumberValue(x) ==
  \/ x.t \in {"int", "bool"}
  \/ x.t = "str" /\ Len(x.v) > 0 /\ \A i \in DOMAIN x.v : x.v[i] \in Digits

\* a malformed item of a create/update batch: wrong type, a missing required
\* field, an unparseable address or number
MalformedOrderItem(item, op) ==
  \/ item.t # "dict"
  \/ \E f \in {"base", "quote", "isBid", "isLimit", "price", "amount", "n",
               "recipient", "isETH"} \cup (IF op = "update_orders" THEN {"orderId"} ELSE {}) :
       f \notin DOMAIN item.v
  \/ \E f \in {"base", "quote", "recipient"} \cap DOMAIN item.v : ~IsAddressValue(item.v[f])
  \/ \E f \in {"price", "amount", "n"} \cap DOMAIN item.v : ~IsNumberValue(item.v[f])
  \/ op = "update_orders" /\ "orderId" \in DOMAIN item.v /\ ~IsNumberValue(item.v["orderId"])

\* a malformed packed identifier: wrong type, fewer than the four fields, an
\* unparseable address or order id
MalformedCancelItem(item) ==
  \/ item.t # "str"
  \/ LET parts == SplitUnderscore(item.v)
     IN \/ Len(parts) < 4
        \/ ~IsAddress(parts[1]) \/ ~IsAddress(parts[2])
        \/ ~IsNumberValue(PyStr(parts[4]))

MalformedBatch(data, op) ==
  \/ data.t # "list"
  \/ data.v = <<>>
  \/ \E k \in DOMAIN data.v :
       IF op = "cancel_orders" THEN MalformedCancelItem(data.v[k])
       ELSE MalformedOrderItem(data.v[k], op)

\* C3: create_orders, update_orders and cancel_orders raise on an input that
\* is no list, is empty or holds a malformed item, before the nonce is
\* fetched and before any transaction is built, signed or broadcast; no item
\* of the batch is submitted.
C3_MalformedBatchRejected ==
  \A o \in Ops :
    (Called(o) /\ OpOf(o) \in BatchOps /\ MalformedBatch(DataOf(o), OpOf(o))) =>
      /\ pc[o] = "raised" /\ outcome[o].kind = "raised"
      /\ call[o] = <<>> /\ tx[o] = <<>>
      /\ obs[o].nonce_reads = 0 /\ obs[o].signs = 0 /\ obs[o].broadcasts = 0
      /\ o \notin mempool

\* C3 witness: a batch whose first item is well-formed and whose second item
\* has an unparseable address has been rejected.
C3_Witness ==
  \E o \in Ops :
    /\ pc[o] = "raised" /\ OpOf(o) = "create_orders"
    /\ DataOf(o).t = "list" /\ Len(DataOf(o).v) = 2
    /\ ~MalformedOrderItem(DataOf(o).v[1], "create_orders")
    /\ DataOf(o).v[2] = PyDict([ValidItem EXCEPT !.base = PyStr(BadAddress)])

\* C4: formatting "{base}_{quote}_{isBid}_{orderId}" the way OrderInfo ids
\* are emitted and parsing it in cancel_orders gives a cancel record equal to
\* the original (base, quote, side, orderId), the side flag included
\* (addresses are compared as addresses, whatever their letter case).
C4_CancelRoundTrip ==
  \A o \in Ops :
    (Called(o) /\ OpOf(o) = "cancel_orders" /\ call[o] # <<>>) =>
      \A k \in DOMAIN DataOf(o).v : \A t \in CancelTuples :
        DataOf(o).v[k] = PyStr(FormatOrderId(t[1], t[2], t[3], t[4])) =>
          LET rec == call[o][1].args[1][k]
          IN /\ Lower(rec[1]) = Lower(t[1])
             /\ Lower(rec[2]) = Lower(t[2])
             /\ rec[3] = t[3]
             /\ rec[4] = t[4]

\* the gas limit the caller passed
GasOf(o) == intent[o][1].a.gas

\* C12: for create_orders, update_orders and cancel_orders called with n
\* items and gas g, the gas limit of the built transaction is
\* max(g, 3,000,000 * n): a value below the floor is replaced by the floor,
\* a value at or above it is kept.
C12_GasFloor ==
  \A o \in Ops :
    (Called(o) /\ OpOf(o) \in BatchOps /\ tx[o] # <<>>) =>
      \/ /\ GasOf(o) >= GasFloor * Len(DataOf(o).v)
         /\ tx[o][1].gas = GasOf(o)
      \/ /\ GasOf(o) < GasFloor * Len(DataOf(o).v)
         /\ tx[o][1].gas = GasFloor * Len(DataOf(o).v)

\* C12 witness: a transaction built for a batch of two items called with
\* gas one below the floor of two items carries the floor.
C12_Witness ==
  \E o \in Ops :
    /\ Called(o) /\ OpOf(o) \in BatchOps /\ tx[o] # <<>>
    /\ Len(DataOf(o).v) = 2 /\ GasOf(o) = 2 * GasFloor - 1
    /\ tx[o][1].gas = 2 * GasFloor

\* the sum of the amounts of the items flagged isETH
RECURSIVE SumFlagged(_)
SumFlagged(items) ==
  IF items = <<>> THEN 0
  ELSE (IF BoolOf(items[1].v.isETH) THEN IntOf(items[1].v.amount).v ELSE 0)
       + SumFlagged(Tail(items))

\* the native value a transaction carries
ValueOf(t) == IF "value" \in DOMAIN t THEN t.value ELSE 0

\* C13: for create_orders and update_orders the native value attached to
\* the single batch transaction is the sum of the amount fields of exactly
\* the items flagged isETH; items not flagged contribute nothing.
C13_AttachedValue ==
  \A o \in Ops :
    (Called(o) /\ OpOf(o) \in {"create_orders", "update_orders"} /\ call[o] # <<>>) =>
      /\ call[o][1].eth_amount = SumFlagged(DataOf(o).v)
      /\ tx[o] # <<>> => ValueOf(tx[o][1]) = SumFlagged(DataOf(o).v)

\* C13 witness: the transaction built for three items of which two are
\* native-currency orders of 100 and 50 carries value 150 and a gas limit of
\* at least three floors.
C13_Witness ==
  \E o \in Ops :
    /\ Called(o) /\ OpOf(o) = "create_orders" /\ DataOf(o).v = ScenarioBatch
    /\ tx[o] # <<>> /\ tx[o][1].value = 150
    /\ tx[o][1].gas >= 3 * GasFloor

\* the call was rejected before any chain interaction
Rejected(o) ==
  /\ pc[o] = "raised" /\ outcome[o].kind = "raised"
  /\ call[o] = <<>> /\ tx[o] = <<>> /\ obs[o].broadcasts = 0

\* C18: cancel_orders accepts a packed identifier only if splitting it on
\* "_" gives exactly four fields; if any entry of the batch splits into
\* fewer or more than four fields, the whole batch is rejected and nothing is
\* submitted.
C18_ExactlyFourFields ==
  \A o \in Ops :
    ( /\ Called(o) /\ OpOf(o) = "cancel_orders" /\ DataOf(o).t = "list"
      /\ \E k \in DOMAIN DataOf(o).v :
           /\ DataOf(o).v[k].t = "str"
           /\ Len(SplitUnderscore(DataOf(o).v[k].v)) # 4 )
    => Rejected(o)

\* the fields the encoder reads from an item to build the positional tuple
FieldsRead(op) ==
  {"base", "quote", "isBid", "isLimit", "price", "amount", "n", "recipient", "isETH"}
  \cup (IF op = "update_orders" THEN {"orderId"} ELSE {})

\* C19: in create_orders and update_orders, when the item at index i lacks a
\* field the encoder reads to build the positional tuple, the batch is
\* rejected with a validation error that identifies index i (the items
\* before it being well-formed).
C19_MissingFieldNamesIndex ==
  \A o \in Ops :
    (Called(o) /\ OpOf(o) \in {"create_orders", "update_orders"} /\ DataOf(o).t = "list") =>
      \A k \in DOMAIN DataOf(o).v :
        ( /\ \A j \in 1..(k - 1) : ~MalformedOrderItem(DataOf(o).v[j], OpOf(o))
          /\ DataOf(o).v[k].t = "dict"
          /\ ~(FieldsRead(OpOf(o)) \subseteq DOMAIN DataOf(o).v[k].v) )
        => /\ Rejected(o)
           /\ outcome[o].value.exc = "ValueError"
           /\ outcome[o].value.index = k - 1

\* C20: the order identifier in each item's positional tuple sent to
\* createOrders is the item's orderId when the caller supplied one and 0 when
\* the caller supplied none; in update_orders it is the caller's orderId.
C20_OrderIdInTuple ==
  \A o \in Ops :
    (Called(o) /\ OpOf(o) \in {"create_orders", "update_orders"} /\ call[o] # <<>>) =>
      \A k \in DOMAIN DataOf(o).v :
        call[o][1].args[1][k][5] =
          IF "orderId" \in DOMAIN DataOf(o).v[k].v
          THEN IntOf(DataOf(o).v[k].v.orderId).v ELSE 0

(***************************************************************************)
(* SpecClient: one invocation of a StandardClient trading method, over     *)
(* prices, slippage limits and amounts, with the client's token records    *)
(* complete or lacking the quote token.                                    *)
(***************************************************************************)
\* a token record as the API serves it
TokenRecord(id, decimals, symbol) == [id |-> id, decimals |-> decimals, symbol |-> symbol]

ClientTokens ==
  (BaseTok :> TokenRecord(BaseTok, 3, "B")) @@ (QuoteTok :> TokenRecord(QuoteTok, 6, "Q"))

MetaClient ==
  [base_quote |-> FullBaseQuote, token_info |-> FullTokenInfo, tokens |-> ClientTokens]
\* the token list lacks the quote token
MetaClientNoQuote ==
  [base_quote |-> FullBaseQuote, token_info |-> FullTokenInfo,
   tokens |-> (BaseTok :> TokenRecord(BaseTok, 3, "B"))]

\* prices, slippage percentages and amounts the caller passes; native
\* amounts of zero
ClientArgs ==
  {[ValidArgs EXCEPT !.price = PyInt(p), !.slippage_limit = PyInt(sl),
                     !.amount = PyInt(am), !.eth_amount = PyInt(0)] :
     p \in {0, 7, 21}, sl \in {0, 1, 50}, am \in {0, 5}}
  \cup {[ValidArgs EXCEPT !.price = PyNone, !.eth_amount = PyInt(0)],
        [ValidArgs EXCEPT !.slippage_limit = PyBool(TRUE), !.eth_amount = PyInt(0)],
        [ValidArgs EXCEPT !.base = PyStr(BadAddress), !.eth_amount = PyInt(0)]}

ClientRequests == {[op |-> op, a |-> a] : op \in SingleOps, a \in ClientArgs}

InitClient == InitWith({MetaClient, MetaClientNoQuote})
NextClient ==
  \E o \in {"op1"} :
    \/ ClientCall(o, ClientRequests)
    \/ ExecuteBuild(o)
    \/ SendTx(o)
    \/ Mine(o, BatchReceipts)
    \/ WaitTimeout(o)
    \/ ExecuteFinish(o)
SpecClient == InitClient /\ [][NextClient]_vars

LimitOps == {"limit_buy", "limit_sell", "limit_buy_eth", "limit_sell_eth"}
MarketOps == {"market_buy", "market_sell", "market_buy_eth", "market_sell_eth"}

\* the client method has called the contract layer
Forwarded(o) == request[o] # <<>> /\ intent[o] # <<>>

Positional(op) ==
  {"base", "quote", "amount", "is_maker", "n", "recipient"}
  \cup (IF op \in LimitOps THEN {"price"} ELSE {"slippage_limit"})

\* C16: each StandardClient trading method (market_buy, market_sell,
\* limit_buy, limit_sell) calls the same-named ContractFunctions method
\* exactly once, with the caller's arguments unchanged and in the same
\* positions.
C16_ArgumentsUnchanged ==
  \A o \in Ops :
    (request[o] # <<>> /\ request[o][1].op \in GatherOps) =>
      /\ intent[o] # <<>>
      /\ intent[o][1].op = request[o][1].op
      /\ \A k \in Positional(request[o][1].op) :
           intent[o][1].a[k] = request[o][1].a[k]

(***************************************************************************)
(* SpecOrders: two invocations of StandardClient.create_orders or          *)
(* update_orders on one list the caller holds, with the client's token     *)
(* records complete or lacking the quote token.                            *)
(***************************************************************************)
\* the largest price the caller's list may hold when a batch method is called
MaxPrice == 21

\* a bid limit order, an ask market order, an order without price and an
\* order on a base token the client has no record of
BidLimitItem == [ValidItem EXCEPT !.amount = PyInt(2)]
AskMarketItem ==
  [ValidItem EXCEPT !.isBid = PyBool(FALSE), !.isLimit = PyBool(FALSE),
                    !.price = PyInt(0), !.amount = PyInt(2)]
OrderListItems ==
  {PyDict(BidLimitItem), PyDict(AskMarketItem),
   PyDict(Without(ValidItem, "price")),
   PyDict([ValidItem EXCEPT !.base = PyStr(Recipient)])}

OrderLists == {PyList(l) : l \in Batches(OrderListItems)}
OrderRequests == {[op |-> op, a |-> ValidArgs] : op \in {"create_orders", "update_orders"}}
OrderReceipts == {MkReceipt(0, <<>>), MkReceipt(1, <<>>)}

InitOrders == InitWith({MetaClient, MetaClientNoQuote})
NextOrders ==
  \/ CallerBuildsList(OrderLists)
  \/ \E o \in Ops :
       \/ ClientBatchCall(o, OrderRequests, MaxPrice)
       \/ ExecuteBuild(o)
       \/ SendTx(o)
       \/ Mine(o, OrderReceipts)
       \/ WaitTimeout(o)
       \/ ExecuteFinish(o)
SpecOrders == InitOrders /\ [][NextOrders]_vars

\* a complete bid limit order
IsBidLimit(item) ==
  /\ item.t = "dict"
  /\ DOMAIN ValidItem \subseteq DOMAIN item.v
  /\ item.v.isBid = PyBool(TRUE) /\ item.v.isLimit = PyBool(TRUE)

\* what StandardClient.limit_buy does with the order the item describes
SingleOf(item) ==
  StandardClient_limit_buy(
    [ValidArgs EXCEPT !.base = item.v.base, !.quote = item.v.quote,
                      !.price = item.v.price, !.amount = item.v.amount,
                      !.n = item.v.n, !.recipient = item.v.recipient],
    client_token_info)

\* C28: the batch path and the single-order path scale a human-readable
\* amount by the same token's decimals.  For a create_orders call whose items
\* are all bid limit orders, the contract layer is called exactly when
\* limit_buy would call it for each item, and then every item carries the
\* price and the amount limit_buy passes on for the same input (the amount
\* scaled by the quote token's decimals).
C28_SameTokenScaling ==
  \A o \in Ops :
    ( /\ request[o] # <<>> /\ request[o][1].op = "create_orders"
      /\ request[o][1].a.data.v # <<>>
      /\ \A k \in DOMAIN request[o][1].a.data.v : IsBidLimit(request[o][1].a.data.v[k]) )
    => LET items == request[o][1].a.data.v
       IN /\ (intent[o] # <<>>) <=> (\A k \in DOMAIN items : SingleOf(items[k]).ok)
          /\ intent[o] # <<>> =>
               \A k \in DOMAIN items :
                 /\ intent[o][1].a.data.v[k].v.amount = SingleOf(items[k]).v.a.amount
                 /\ intent[o][1].a.data.v[k].v.price = SingleOf(items[k]).v.a.price

\* C29: create_orders and update_orders leave the caller's order dicts
\* unchanged: no call changes the list the caller holds, and two calls of
\* the same method on that list that reach the contract hand it the same
\* positional tuples.
C29_CallerListUnchanged ==
  /\ [][\A o \in Ops :
          (pc[o] = "idle" /\ pc'[o] # "idle") => order_list' = order_list]_vars
  /\ [](\A o \in Ops : \A p \in Ops \ {o} :
          ( /\ call[o] # <<>> /\ call[p] # <<>>
            /\ request[o][1].op = request[p][1].op )
          => call[o][1].args = call[p][1].args)

(***************************************************************************)
(* StandardClient.__init__: the network lookup, the explicit arguments,    *)
(* the API and WebSocket components, the token and pair lists fetched from *)
(* the API, the metadata built from them and the construction of the       *)
(* contract layer.                                                         *)
(***************************************************************************)
\* standardweb3/consts/urls.py
StoryOdyssey == "Story Odyssey Testnet"
api_urls == (StoryOdyssey :> "https://story-odyssey-ponder.standardweb3.com")
websocket_urls == (StoryOdyssey :> "wss://story-odyssey-websocket.standardweb3.com")

\* Lines 45-63: the three table lookups for a given networkName; addresses
\* is the table matching_engine_addresses.
LookupNetwork(networkName, addresses) ==
  IF networkName.t = "none" THEN Ok(EmptyDict)
  ELSE IF networkName.v \notin DOMAIN addresses THEN Err("ValueError", -1)
  ELSE IF networkName.v \notin DOMAIN api_urls THEN Err("ValueError", -1)
  ELSE IF networkName.v \notin DOMAIN websocket_urls THEN Err("ValueError", -1)
  ELSE Ok([matching_engine_address |-> PyStr(addresses[networkName.v]),
           api_url |-> PyStr(api_urls[networkName.v]),
           websocket_url |-> PyStr(websocket_urls[networkName.v])])

\* Lines 65-67: the three attributes are assigned from the arguments.
AssignArguments(attrs, a) ==
  SetKeys(attrs, [api_url |-> a.api_url, websocket_url |-> a.websocket_url,
                  matching_engine_address |-> a.matching_engine_address])

\* try: data = fetch(); list = data.get(key, []) if data else []
\* except Exception: list = []          (lines 76-81, 89-94)
FetchedList(fetch, key) ==
  IF ~fetch.ok THEN <<>>
  ELSE IF fetch.v.t # "dict" THEN <<>>
  ELSE IF key \in DOMAIN fetch.v.v THEN fetch.v.v[key] ELSE <<>>

\* self._token_info[token["id"]] = token  (lines 84-86)
TokenInfoOf(tokens) ==
  [id \in {tokens[i].id : i \in DOMAIN tokens} |->
     tokens[CHOOSE i \in DOMAIN tokens :
              tokens[i].id = id /\ \A j \in DOMAIN tokens : tokens[j].id = id => j <= i]]

\* self._base_quote[pair["id"]] = {"base": base_id, "quote": quote_id}
\* (lines 97-101)
BaseQuoteOf(pairs) ==
  [id \in {pairs[i].id : i \in DOMAIN pairs} |->
     LET pair == pairs[CHOOSE i \in DOMAIN pairs :
                         pairs[i].id = id /\ \A j \in DOMAIN pairs : pairs[j].id = id => j <= i]
     IN [base |-> pair.base.id, quote |-> pair.quote.id]]

\* the parameters of ContractFunctions.__init__, none of which has a default
ContractParameters ==
  {"http_rpc_url", "private_key", "matching_engine", "matching_engine_abi",
   "base_quote", "token_info"}

\* ContractFunctions(...): a call that leaves a parameter without argument
\* is a TypeError; otherwise the object keeps the arguments.
ContractFunctionsInit(kwargs) ==
  IF ContractParameters \subseteq DOMAIN kwargs THEN Ok(kwargs) ELSE Err("TypeError", -1)

\* Lines 104-115: the contract layer is constructed last.
WithContract(attrs, components, warnings, kwargs, r) ==
  [attrs |-> IF r.ok THEN SetKeys(attrs, [contract |-> r.v]) ELSE attrs,
   components |-> components,
   warnings |-> warnings,
   handed |-> kwargs,
   outcome |-> IF r.ok THEN Returned(PyNone) ELSE Raised(r.v)]

\* the arguments of the call of lines 104-110
ContractArguments(attrs, base_quote_built) ==
  [http_rpc_url |-> "http_rpc_url", private_key |-> "private_key",
   matching_engine |-> attrs.matching_engine_address,
   matching_engine_abi |-> "matching_engine_abi",
   base_quote |-> base_quote_built]

\* Lines 69-115, with the attributes of lines 45-67 in attrs.
WithComponents(attrs, tokens_fetch, pairs_fetch) ==
  LET tokens == FetchedList(tokens_fetch, "tokens")
      pairs == FetchedList(pairs_fetch, "pairs")
      attrs2 == SetKeys(attrs, [_tokens |-> tokens, _token_info |-> TokenInfoOf(tokens),
                                _pairs |-> pairs, _base_quote |-> BaseQuoteOf(pairs)])
      kwargs == ContractArguments(attrs2, attrs2._base_quote)
  IN WithContract(attrs2,
                  << [cls |-> "APIFunctions", args |-> <<attrs.api_url>>],
                     [cls |-> "WebsocketFunctions", args |-> <<PyNone, attrs.websocket_url>>] >>,
                  << ~tokens_fetch.ok, ~pairs_fetch.ok >>,
                  kwargs, ContractFunctionsInit(kwargs))

\* Lines 45-68 done (or ended by the ValueError), the rest follows.
WithNetwork(a, tokens_fetch, pairs_fetch, r) ==
  IF ~r.ok
  THEN [attrs |-> EmptyDict, components |-> <<>>, warnings |-> <<>>,
        handed |-> EmptyDict, outcome |-> Raised(r.v)]
  ELSE WithComponents(AssignArguments(r.v, a), tokens_fetch, pairs_fetch)

\* StandardClient(private_key, http_rpc_url, matching_engine_address,
\* networkName, api_url, websocket_url): the attributes assigned to self, the
\* components created in order, and how the constructor ended.
StandardClientInit(a, addresses, tokens_fetch, pairs_fetch) ==
  WithNetwork(a, tokens_fetch, pairs_fetch, LookupNetwork(a.networkName, addresses))

\* The caller constructs the client.  A construction that returns makes the
\* metadata it handed over the contract layer's.
Construct(argsets, tables, tokenfetches, pairfetches) ==
  /\ client = <<>>
  /\ \E a \in argsets : \E addresses \in tables :
     \E tf \in tokenfetches : \E pf \in pairfetches :
     \E c \in {StandardClientInit(a, addresses, tf, pf)} :
       /\ client' = <<[args |-> a, addresses |-> addresses, self |-> c]>>
       /\ IF c.outcome.kind = "returned"
          THEN /\ base_quote' = c.handed.base_quote
               /\ token_info' = c.handed.token_info
               /\ client_token_info' = c.attrs._token_info
          ELSE UNCHANGED <<base_quote, token_info, client_token_info>>
  /\ UNCHANGED <<order_list, ws, request, chain_count, mempool, pc, intent, call, tx,
                 receipt, outcome, obs>>

(***************************************************************************)
(* SpecSetup: one construction of the client, over network names, explicit *)
(* URLs, the contents of the address table and what the API returns.       *)
(***************************************************************************)
Somnia == "Somnia Testnet"
CustomApiUrl == "https://test-api.example.com"
CustomWsUrl == "wss://test-ws.example.com"

SetupArgs ==
  {[networkName |-> n, api_url |-> au, websocket_url |-> wu,
    matching_engine_address |-> PyStr(MatchingEngine)] :
     n \in {PyNone, PyStr(StoryOdyssey), PyStr(Somnia), PyStr("Invalid Network")},
     au \in {PyNone, PyStr(CustomApiUrl)},
     wu \in {PyNone, PyStr(CustomWsUrl)}}

\* matching_engine_addresses, with and without an address for the network
\* the URL tables list
AddressTables ==
  {(StoryOdyssey :> MatchingEngine) @@ (Somnia :> TokenContract),
   (Somnia :> TokenContract)}

\* a pair record as the API serves it
PairRecord(id, symbol, base, quote) ==
  [id |-> id, symbol |-> symbol, base |-> base, quote |-> quote]
ListedPair ==
  PairRecord(Lower(Pair1), "B/Q", TokenRecord(BaseTok, 3, "B"), TokenRecord(QuoteTok, 6, "Q"))

TokenFetches ==
  {Err("AttributeError", -1), Ok(PyNone),
   Ok(PyDict([tokens |-> <<TokenRecord(BaseTok, 3, "B")>>])),
   Ok(PyDict([tokens |-> <<TokenRecord(BaseTok, 3, "B"), TokenRecord(QuoteTok, 6, "Q")>>]))}
PairFetches ==
  {Err("AttributeError", -1), Ok(PyNone), Ok(PyDict([pairs |-> <<ListedPair>>]))}

\* no contract layer exists before the construction
MetaNone == [base_quote |-> EmptyDict, token_info |-> EmptyDict]

InitSetup == InitWith({MetaNone})
NextSetup == Construct(SetupArgs, AddressTables, TokenFetches, PairFetches)
SpecSetup == InitSetup /\ [][NextSetup]_vars

Constructed == client # <<>>
\* the network name is in all three tables
Supported(n, addresses) ==
  n.t = "str" /\ n.v \in DOMAIN addresses \cap DOMAIN api_urls \cap DOMAIN websocket_urls

\* C21: constructed with a supported networkName and no explicit
\* websocket_url, the client's websocket_url is the network's configured URL
\* and the WebSocket component is created with that URL; constructed with an
\* unsupported networkName, the constructor raises ValueError before any
\* component is created.
C21_NetworkWebsocketUrl ==
  Constructed =>
    LET c == client[1]
        n == c.args.networkName
    IN /\ (Supported(n, c.addresses) /\ c.args.websocket_url.t = "none") =>
            /\ "websocket_url" \in DOMAIN c.self.attrs
            /\ c.self.attrs.websocket_url = PyStr(websocket_urls[n.v])
            /\ \E i \in DOMAIN c.self.components :
                 c.self.components[i] =
                   [cls |-> "WebsocketFunctions",
                    args |-> <<PyNone, PyStr(websocket_urls[n.v])>>]
       /\ (n.t = "str" /\ ~Supported(n, c.addresses)) =>
            /\ c.self.outcome.kind = "raised"
            /\ c.self.outcome.value.exc = "ValueError"
            /\ c.self.components = <<>>

\* the OrderPlaced event of a bid on the listed pair, as the decoder gives it
ListedPlaced == PyList(<<MkDecoded("OrderPlaced", Placed1, 1)>>)

\* C30: the metadata the client builds from the pair and token lists and
\* hands to the contract layer has every field the mapper reads for an
\* OrderPlaced event: when the API served the listed pair and its tokens
\* the construction returns, the pair's entry holds base, quote and symbol,
\* the tokens' entries hold decimals and symbol, and the mapper yields the
\* OrderInfo of an OrderPlaced log of that pair.
C30_MetadataComplete ==
  ( /\ Constructed
    /\ client[1].self.components # <<>>
    /\ client[1].self.attrs._pairs = <<ListedPair>>
    /\ Len(client[1].self.attrs._tokens) = 2 )
  => LET h == client[1].self.handed
     IN /\ client[1].self.outcome.kind = "returned"
        /\ {"base_quote", "token_info"} \subseteq DOMAIN h
        /\ HasEntry(h.base_quote, Lower(Pair1), {"base", "quote", "symbol"})
        /\ HasEntry(h.token_info, BaseTok, {"decimals", "symbol"})
        /\ HasEntry(h.token_info, QuoteTok, {"decimals", "symbol"})
        /\ ParseDecodedLogs(ListedPlaced, h.base_quote, h.token_info) # PyList(<<>>)

(***************************************************************************)
(* WebsocketFunctions.connect_to_ws: the reconnection loop.  ws.pc is      *)
(* where the coroutine is: connecting (in websockets.connect), connected   *)
(* (awaiting recv), sending (awaiting send), sleeping (awaiting            *)
(* asyncio.sleep(5) in the except branch).  The counters record what the   *)
(* loop saw: connections made, exceptions caught, "Hello" and other        *)
(* messages received, send calls made.                                     *)
(***************************************************************************)
\* how many exceptions and how many messages the network produces
MaxFailures == 2
MaxMessages == 3

\* an except branch that leaves the loop
WsOnExceptionReturns(w) == [w EXCEPT !.pc = "returned", !.failures = @ + 1]
\* except Exception as e: print(...); await asyncio.sleep(5)  (lines 40-42)
WsOnException(w) == [w EXCEPT !.pc = "sleeping", !.failures = @ + 1]

\* start_ws / connect_to_ws(url): the loop is entered, first attempt
WsStart ==
  /\ ws.pc = "idle"
  /\ ws' = [ws EXCEPT !.pc = "connecting"]
  /\ UNCHANGED <<client, order_list, client_token_info, request, base_quote, token_info,
                 chain_count, mempool, pc, intent, call, tx, receipt, outcome, obs>>

\* websockets.connect(url) succeeded: self.ws = websocket, then recv is awaited
WsConnected ==
  /\ ws.pc = "connecting"
  /\ ws' = [ws EXCEPT !.pc = "connected", !.conns = @ + 1]
  /\ UNCHANGED <<client, order_list, client_token_info, request, base_quote, token_info,
                 chain_count, mempool, pc, intent, call, tx, receipt, outcome, obs>>

\* an exception inside the try: the attempt failed, or recv or send raised
\* on a connection that went down
WsRaise(max) ==
  /\ ws.pc \in {"connecting", "connected", "sending"}
  /\ ws.failures < max
  /\ ws' = WsOnException(ws)
  /\ UNCHANGED <<client, order_list, client_token_info, request, base_quote, token_info,
                 chain_count, mempool, pc, intent, call, tx, receipt, outcome, obs>>

\* message = await websocket.recv(); if message == "Hello": websocket.send("Hello")
WsRecv(messages, max) ==
  /\ ws.pc = "connected"
  /\ ws.hellos + ws.others < max
  /\ \E message \in messages :
       ws' = IF message = "Hello"
             THEN [ws EXCEPT !.hellos = @ + 1, !.sends = @ + 1, !.pc = "sending"]
             ELSE [ws EXCEPT !.others = @ + 1]
  /\ UNCHANGED <<client, order_list, client_token_info, request, base_quote, token_info,
                 chain_count, mempool, pc, intent, call, tx, receipt, outcome, obs>>

\* await websocket.send("Hello") returned: back to recv
WsSent ==
  /\ ws.pc = "sending"
  /\ ws' = [ws EXCEPT !.pc = "connected"]
  /\ UNCHANGED <<client, order_list, client_token_info, request, base_quote, token_info,
                 chain_count, mempool, pc, intent, call, tx, receipt, outcome, obs>>

\* asyncio.sleep(5) returned: the outer while True starts the next attempt
WsWake ==
  /\ ws.pc = "sleeping"
  /\ ws' = [ws EXCEPT !.pc = "connecting"]
  /\ UNCHANGED <<client, order_list, client_token_info, request, base_quote, token_info,
                 chain_count, mempool, pc, intent, call, tx, receipt, outcome, obs>>

WsMessages == {"Hello", "hello", "ping"}

InitWs == InitWith({MetaNone})
NextWs ==
  \/ WsStart
  \/ WsConnected
  \/ WsRaise(MaxFailures)
  \/ WsRecv(WsMessages, MaxMessages)
  \/ WsSent
  \/ WsWake
\* The event loop that runs the coroutine returns from asyncio.sleep(5)
\* once the five seconds have passed.
SpecWs == InitWs /\ [][NextWs]_vars /\ WF_vars(WsWake)

\* C26: automatic reconnection.  The loop never ends on its own; every
\* exception inside the try, from a failed attempt or an established
\* connection, leads to the pause, and the pause is always followed by a
\* new connection attempt; the loop has called send("Hello") exactly once
\* for every "Hello" received and never for another message.
C26_Reconnects ==
  /\ [](ws.pc # "returned")
  /\ [](ws.sends = ws.hellos)
  /\ [][ws'.failures > ws.failures => ws'.pc = "sleeping"]_vars
  /\ ((ws.pc = "sleeping") ~> (ws.pc = "connecting"))

\* C26 witness: a connection received a "Hello" and another message, an
\* exception ended it, and after the pause a new attempt is under way.
C26_Witness ==
  /\ ws.pc = "connecting" /\ ws.failures >= 1 /\ ws.conns >= 1
  /\ ws.hellos >= 1 /\ ws.others >= 1 /\ ws.sends = ws.hellos

====
